---------------------------- MODULE Spec2Model ----------------------------
(***************************************************************************)
(* A model of the EMS risk-scoring pipeline (risk_score/risk_score_       *)
(* pipeline.py), of the text-generation client it calls                    *)
(* (risk_score/llm_client.py), and of the loop that generates, runs and    *)
(* scores cleaning code (cleaning/controller.py).                          *)
(*                                                                         *)
(* Python strings are TLA+ strings; TLC evaluates Len, \o and SubSeq on    *)
(* them, so lowercasing and substring search are computed character by     *)
(* character.  Python values of several types are tagged records:          *)
(*   [t |-> "none"], [t |-> "str", v |-> "..."], [t |-> "nan"],            *)
(*   [t |-> "num", v |-> n]   (a float, n in hundredths).                  *)
(***************************************************************************)
EXTENDS Integers, Sequences, FiniteSets, TLC

VARIABLES
    fn,     \* pure-function harness: the function under test ("none" in the pipeline)
    arg,    \* pure-function harness: its argument
    ret,    \* pure-function harness: its result, NotYet before the call
    pc,                 \* run_pipeline's position ("off" outside a pipeline run)
    has_lgb,            \* _HAS_LGB, set when the module is imported
    age_group,          \* df["age_group"]: incident -> bucket
    medical_text,       \* df["medical_text"]: incident -> text
    cluster_id,         \* df["cluster_id"]: incident -> cluster
    cluster_samples,    \* cluster -> the list of sampled incidents
    pending,            \* clusters the summarization loop has not reached yet
    llm,                \* the LLMClient call in progress: its locals
    calls,              \* cluster -> number of summarize_cluster calls made for it
    cluster_summaries,  \* cluster -> recorded summary
    outcome,            \* history: cluster -> how its summarize_cluster call ended
    label_map,          \* cluster -> label
    risk_label,         \* df["risk_label"]: incident -> label
    df_train,           \* incidents of the Train split
    df_test,            \* incidents of the Test split
    written,            \* the artifact files written so far
    error,              \* the exception that left run_pipeline, "" if none
    tfidf_vocab,        \* the classifier's fitted TF-IDF vocabulary
    ohe_categories,     \* the fitted OneHotEncoder's categories_
    feature_names_cat,  \* the one-hot column names
    feature_names,      \* the columns of Train's feature matrix
    test_feature_names, \* the columns of Test's feature matrix
    stdout,             \* the lines printed so far (a format string once, with its values)
    report,             \* the lines of classifier_report.txt
    X_train_df,          \* Train's feature matrix: incident -> cells, in the order of feature_names
    X_test_df,           \* Test's feature matrix: incident -> cells
    run,                 \* 1 in a first run of the pipeline, 2 in a second run on the same input
    first,               \* in a second run: the draws, responses and results of the first
    split_rows,          \* the cluster_id and risk_label columns of the rows of df_train and df_test
    y_pred_prob,         \* model.predict(X_test_df): Test incident -> probabilities of LOW, MEDIUM, HIGH
    cm,                  \* the confusion matrix, <<>> before it is computed
    mis,                 \* misclassified_samples.csv: incident -> its annotated row
    attempt,             \* controller_loop: the pass of its loop, 0 before the loop, MAX_ATTEMPTS + 1 after it
    code,                \* controller_loop: the generated code to try next
    prev_code,           \* controller_loop: the code handed back to the generator
    prev_error,          \* controller_loop: the error handed back to the generator
    files                \* controller_loop: path -> the content last written and the number of writes

NotYet == [t |-> "notyet"]
None == [t |-> "none"]
NaN == [t |-> "nan"]
Str(s) == [t |-> "str", v |-> s]
Num(n) == [t |-> "num", v |-> n]

(***************************************************************************)
(* Strings.                                                                *)
(***************************************************************************)
CharAt(s, i) == SubSeq(s, i, i)

\* the printable ASCII characters in code-point order: 32 to 95, and 97 to 126
\* (the grave accent, 96, cannot be written in a TLA+ string)
AsciiTo95 == " !\"#$%&'()*+,-./0123456789:;<=>?@ABCDEFGHIJKLMNOPQRSTUVWXYZ[\\]^_"
AsciiFrom97 == "abcdefghijklmnopqrstuvwxyz{|}~"

\* chr(n)
Chr(n) == IF n <= 95 THEN CharAt(AsciiTo95, n - 31) ELSE CharAt(AsciiFrom97, n - 96)

\* ord(c), as a table
Code == [c \in {Chr(n) : n \in (32..95) \cup (97..126)} |->
            CHOOSE n \in (32..95) \cup (97..126) : Chr(n) = c]

IsUpper(c) == Code[c] \in Code["A"]..Code["Z"]
IsLower(c) == Code[c] \in Code["a"]..Code["z"]
IsDigit(c) == Code[c] \in Code["0"]..Code["9"]

\* str.lower() on one ASCII character
LowerChar(c) == IF IsUpper(c) THEN Chr(Code[c] + (Code["a"] - Code["A"])) ELSE c

UpperChar(c) == IF IsLower(c) THEN Chr(Code[c] - (Code["a"] - Code["A"])) ELSE c

RECURSIVE MapChars(_, _, _)
MapChars(s, i, which) ==
    IF i > Len(s) THEN ""
    ELSE (IF which = "lower" THEN LowerChar(CharAt(s, i)) ELSE UpperChar(CharAt(s, i)))
         \o MapChars(s, i + 1, which)

\* str.lower()
Lower(s) == MapChars(s, 1, "lower")
\* str.upper()
Upper(s) == MapChars(s, 1, "upper")

\* Python's  k in s  for strings
Contains(s, k) ==
    \E i \in 1..(Len(s) - Len(k) + 1) : SubSeq(s, i, i + Len(k) - 1) = k

\* any(k in s for k in kws), kws a sequence of strings
ContainsAny(s, kws) == \E j \in 1..Len(kws) : Contains(s, kws[j])

(***************************************************************************)
(* extract_label                                                           *)
(***************************************************************************)
high_kw == <<"cardiac arrest", "life-threatening", "severe", "airway", "major",
             "unconscious", "seizure", "obvious death", "dead on arrival", "expired">>
low_kw == <<"low risk", "minor", "no injury", "epistaxis", "nosebleed", "public assist",
            "lift assist", "non traumatic", "non-traumatic", "no treatment">>
med_kw == <<"moderate", "stable", "transport", "observation", "requires transport",
            "non life-threatening">>

\* (summary or ""): None and "" are falsy
OrEmpty(summary) == IF summary.t = "str" THEN summary.v ELSE ""

extract_label_LowFirst(summary) ==
    LET s == Lower(OrEmpty(summary))
    IN  IF ContainsAny(s, low_kw) THEN "LOW"
        ELSE IF ContainsAny(s, high_kw) THEN "HIGH"
        ELSE "MEDIUM"

extract_label_CaseSensitive(summary) ==
    LET s == OrEmpty(summary)
    IN  IF ContainsAny(s, high_kw) THEN "HIGH"
        ELSE IF ContainsAny(s, low_kw) THEN "LOW"
        ELSE "MEDIUM"

extract_label_DefaultLow(summary) ==
    LET s == Lower(OrEmpty(summary))
    IN  IF ContainsAny(s, high_kw) THEN "HIGH"
        ELSE IF ContainsAny(s, low_kw) THEN "LOW"
        ELSE IF ContainsAny(s, med_kw) THEN "MEDIUM"
        ELSE IF Contains(s, "hospital") \/ Contains(s, "ed") \/ Contains(s, "transport")
             THEN "MEDIUM"
        ELSE "LOW"

extract_label(summary) ==
    LET s == Lower(OrEmpty(summary))
    IN  IF ContainsAny(s, high_kw) THEN "HIGH"
        ELSE IF ContainsAny(s, low_kw) THEN "LOW"
        ELSE IF ContainsAny(s, med_kw) THEN "MEDIUM"
        ELSE IF Contains(s, "hospital") \/ Contains(s, "ed") \/ Contains(s, "transport")
             THEN "MEDIUM"
        ELSE "MEDIUM"

(***************************************************************************)
(* preprocess_age                                                          *)
(***************************************************************************)
IsDigits(s) == Len(s) > 0 /\ \A i \in 1..Len(s) : IsDigit(CharAt(s, i))

RECURSIVE DigitsValue(_)
DigitsValue(s) ==
    IF Len(s) = 0 THEN 0
    ELSE 10 * DigitsValue(SubSeq(s, 1, Len(s) - 1)) + (Code[CharAt(s, Len(s))] - Code["0"])

RECURSIVE Strip(_)
\* str.strip() for blanks
Strip(s) ==
    IF Len(s) > 0 /\ CharAt(s, 1) = " " THEN Strip(SubSeq(s, 2, Len(s)))
    ELSE IF Len(s) > 0 /\ CharAt(s, Len(s)) = " " THEN Strip(SubSeq(s, 1, Len(s) - 1))
    ELSE s

Raised == [t |-> "raised"]

\* float(age): a float stays, NaN stays, None raises TypeError, a string is
\* parsed (blanks stripped; "nan" in any case is NaN; digits with an optional
\* fraction of one or two digits are a number; anything else raises ValueError)
FloatOf(age) ==
    IF age.t = "num" \/ age.t = "nan" THEN age
    ELSE IF age.t = "none" THEN Raised
    ELSE LET s == Strip(age.v)
             dots == {i \in 1..Len(s) : CharAt(s, i) = "."}
         IN  IF Lower(s) = "nan" THEN NaN
             ELSE IF IsDigits(s) THEN Num(100 * DigitsValue(s))
             ELSE IF Cardinality(dots) = 1
                  THEN LET d == CHOOSE i \in dots : TRUE
                           ip == SubSeq(s, 1, d - 1)
                           fp == SubSeq(s, d + 1, Len(s))
                       IN  IF IsDigits(ip) /\ IsDigits(fp) /\ Len(fp) <= 2
                           THEN Num(100 * DigitsValue(ip)
                                    + (IF Len(fp) = 1 THEN 10 ELSE 1) * DigitsValue(fp))
                           ELSE Raised
                  ELSE Raised

\* a <= years, for a float a; every comparison with NaN is false
Leq(a, years) == a.t = "num" /\ a.v <= 100 * years

preprocess_age_StrictInfant(age) ==
    LET a == FloatOf(age)
    IN  IF a = Raised THEN "unknown"
        ELSE IF a.t = "num" /\ a.v < 100 THEN "infant"
        ELSE IF Leq(a, 12) THEN "child"
        ELSE IF Leq(a, 18) THEN "teen"
        ELSE IF Leq(a, 65) THEN "adult"
        ELSE "elderly"

preprocess_age(age) ==
    LET a == FloatOf(age)
    IN  IF a = Raised THEN "unknown"
        ELSE IF Leq(a, 1) THEN "infant"
        ELSE IF Leq(a, 12) THEN "child"
        ELSE IF Leq(a, 18) THEN "teen"
        ELSE IF Leq(a, 65) THEN "adult"
        ELSE "elderly"

(***************************************************************************)
(* Inputs of the pure functions.                                           *)
(***************************************************************************)
MaxFrags == 2
MaxAgeYears == 201

\* pieces of summary prose, in several letter cases
Fragments == <<"Cardiac Arrest", "SEVERE trauma", "Airway", "Minor", "no injury",
               "LOW RISK", "Stable", "requires transport", "non life-threatening",
               "taken to hospital", "ED", "[NO LLM RESPONSE]", "[ERROR]",
               "patient fell", "MODERATE", "", "Death on scene", "Lift-Assist only",
               "Observation", "transport">>

RECURSIVE Prose(_)
\* the texts made of exactly n fragments joined by blanks
Prose(n) ==
    IF n = 1 THEN {Fragments[i] : i \in 1..Len(Fragments)}
    ELSE {p \o " " \o Fragments[i] : p \in Prose(n - 1), i \in 1..Len(Fragments)}

Summaries == {None} \cup {Str(p) : p \in UNION {Prose(n) : n \in 1..MaxFrags}}

AgeInputs ==
    {Num(100 * y + d) : y \in (-1)..MaxAgeYears, d \in {-1, 0, 1}}
    \cup {NaN, None}
    \cup {Str(s) : s \in {"abc", "", "nan", "NaN", " 7 ", "1", "1.01", "12.5", "65", "66",
                          "200", "1.2.3", "unknown", "12 years"}}

(***************************************************************************)
(* Specifications of the pure functions: Init draws the argument, the      *)
(* action applies the function.                                            *)
(***************************************************************************)
EmptyMap == <<>>

\* no call of the client is in progress; paused: the call that ended last ran
\* its time.sleep(self.sleep_between_calls) before it returned
Idle(paused) == [phase |-> "idle", paused |-> paused]
NoCall == Idle(FALSE)

\* what a first run left behind, before any run has ended
NoMemo ==
    [kmeans |-> {}, sample |-> {}, split |-> {}, responses |-> {},
     cluster_id |-> EmptyMap, cluster_samples |-> EmptyMap, label_map |-> EmptyMap,
     df_train |-> {}, df_test |-> {}, pc |-> "off"]

\* the results a call can give, given the calls memo holds: the recorded
\* result when the same input was seen before, else any candidate
Replayed(memo, input, candidates) ==
    IF \E m \in memo : m.input = input
    THEN {m.output : m \in {x \in memo : x.input = input}} \cap candidates
    ELSE candidates

Seeded_Unseeded(memo, input, candidates) == candidates

\* a library draw made with random_state=RANDOM_STATE: the generator starts
\* from the same seed at every call, so the same input gives the same result
Seeded(memo, input, candidates) == Replayed(memo, input, candidates)

\* the pipeline's variables while only a pure function is exercised
PipelineOff ==
    /\ pc = "off" /\ has_lgb = FALSE
    /\ age_group = EmptyMap /\ medical_text = EmptyMap /\ cluster_id = EmptyMap
    /\ cluster_samples = EmptyMap /\ pending = <<>> /\ llm = NoCall
    /\ calls = EmptyMap /\ cluster_summaries = EmptyMap /\ outcome = EmptyMap
    /\ label_map = EmptyMap
    /\ risk_label = EmptyMap /\ df_train = {} /\ df_test = {}
    /\ written = {} /\ error = ""
    /\ tfidf_vocab = {} /\ ohe_categories = <<>> /\ feature_names_cat = <<>>
    /\ feature_names = <<>> /\ test_feature_names = <<>>
    /\ stdout = {} /\ report = <<>>
    /\ X_train_df = EmptyMap /\ X_test_df = EmptyMap
    /\ run = 1 /\ first = NoMemo
    /\ split_rows = EmptyMap /\ y_pred_prob = EmptyMap /\ cm = <<>> /\ mis = EmptyMap
    /\ attempt = 0 /\ code = None /\ prev_code = None /\ prev_error = None /\ files = EmptyMap

InitLabel == fn = "extract_label" /\ arg \in Summaries /\ ret = NotYet /\ PipelineOff

CallExtractLabel ==
    /\ fn = "extract_label" /\ ret = NotYet
    /\ ret' = Str(extract_label(arg))
    /\ UNCHANGED <<fn, arg, pc, has_lgb, age_group, medical_text, cluster_id,
                   cluster_samples, pending, llm, calls, cluster_summaries, outcome,
                   label_map, risk_label, df_train, df_test, written, error, tfidf_vocab,
                   ohe_categories, feature_names_cat, feature_names, test_feature_names,
                   stdout, report, X_train_df, X_test_df, run, first, split_rows,
                   y_pred_prob, cm, mis, attempt, code, prev_code, prev_error, files>>

InitAge == fn = "preprocess_age" /\ arg \in AgeInputs /\ ret = NotYet /\ PipelineOff

CallPreprocessAge ==
    /\ fn = "preprocess_age" /\ ret = NotYet
    /\ ret' = Str(preprocess_age(arg))
    /\ UNCHANGED <<fn, arg, pc, has_lgb, age_group, medical_text, cluster_id,
                   cluster_samples, pending, llm, calls, cluster_summaries, outcome,
                   label_map, risk_label, df_train, df_test, written, error, tfidf_vocab,
                   ohe_categories, feature_names_cat, feature_names, test_feature_names,
                   stdout, report, X_train_df, X_test_df, run, first, split_rows,
                   y_pred_prob, cm, mis, attempt, code, prev_code, prev_error, files>>

(***************************************************************************)
(* The incident table.  A row holds the CSV cells run_pipeline reads; a    *)
(* missing cell is NaN, as pandas reads it.                                *)
(***************************************************************************)
NInc == 4

\* response_time_min holds a non-numeric cell, so pandas reads the whole column
\* as text; the other timing columns are numeric
RowPool == <<
    [Primary_Impression |-> Str("Cardiac Arrest"), Protocol_Used |-> Str("ALS Cardiac"),
     Patient_Age |-> Num(7000), Patient_Gender |-> Str("Male"),
     Incident_County |-> Str("Kern"),
     response_time_min |-> Str("6.5"), turnout_time_min |-> Num(120),
     call_cycle_time_min |-> Num(4500), on_scene_time_min |-> Num(1500)],
    [Primary_Impression |-> Str("Ankle Sprain"), Protocol_Used |-> Str("BLS Trauma"),
     Patient_Age |-> Num(3400), Patient_Gender |-> Str("Female"),
     Incident_County |-> Str("Kern"),
     response_time_min |-> Str("n/a"), turnout_time_min |-> NaN,
     call_cycle_time_min |-> Num(3000), on_scene_time_min |-> Num(-500)],
    [Primary_Impression |-> Str("cardiac arrest "), Protocol_Used |-> Str("ALS Cardiac"),
     Patient_Age |-> Num(7150), Patient_Gender |-> Str("male"),
     Incident_County |-> Str("Tulare"),
     response_time_min |-> Str("12"), turnout_time_min |-> Num(90),
     call_cycle_time_min |-> NaN, on_scene_time_min |-> Num(2000)],
    [Primary_Impression |-> NaN, Protocol_Used |-> NaN,
     Patient_Age |-> NaN, Patient_Gender |-> NaN,
     Incident_County |-> Str("Kern"),
     response_time_min |-> NaN, turnout_time_min |-> NaN,
     call_cycle_time_min |-> NaN, on_scene_time_min |-> NaN],
    [Primary_Impression |-> Str("Ankle Sprain"), Protocol_Used |-> Str("BLS Trauma"),
     Patient_Age |-> Num(100), Patient_Gender |-> Str("F/M"),
     Incident_County |-> Str("kern"),
     response_time_min |-> Str(" 7.25 "), turnout_time_min |-> Num(0),
     call_cycle_time_min |-> Num(5000), on_scene_time_min |-> NaN] >>

Incidents == 1..NInc

\* safe_read_csv: the table read from input_csv
df == [i \in Incidents |-> RowPool[((i - 1) % Len(RowPool)) + 1]]

\* .fillna(v).astype(str) on one cell
FillNa(cell, v) == IF cell.t = "nan" THEN v ELSE cell.v

(***************************************************************************)
(* Console and report lines: the text as the source writes it, and the     *)
(* values formatted into it.                                               *)
(***************************************************************************)
Line(text, value) == [text |-> text, value |-> value]

\* rows["risk_label"].value_counts(), as the counts of LOW, MEDIUM, HIGH
ValueCounts(lab, rows) ==
    <<Cardinality({i \in rows : lab[i] = "LOW"}),
      Cardinality({i \in rows : lab[i] = "MEDIUM"}),
      Cardinality({i \in rows : lab[i] = "HIGH"})>>

(***************************************************************************)
(* build_medical_text                                                      *)
(***************************************************************************)
MedicalTextOf(row) ==
    Strip(Lower(FillNa(row.Primary_Impression, ""))) \o " | "
    \o Strip(Lower(FillNa(row.Protocol_Used, ""))) \o " | "
    \o preprocess_age(row.Patient_Age)

BuildMedicalText ==
    /\ pc = "start"
    /\ age_group' = [i \in Incidents |-> preprocess_age(df[i].Patient_Age)]
    /\ medical_text' = [i \in Incidents |-> MedicalTextOf(df[i])]
    /\ pc' = "built"
    /\ stdout' = stdout \cup {Line("Loaded {len(df):,} rows from {path}", <<NInc>>)}
    /\ UNCHANGED <<fn, arg, ret, has_lgb, cluster_id, cluster_samples, pending, llm, calls,
                   cluster_summaries, outcome, label_map, risk_label, df_train, df_test,
                   written, error, tfidf_vocab, ohe_categories, feature_names_cat,
                   feature_names, test_feature_names, report, X_train_df, X_test_df, run,
                   first, split_rows, y_pred_prob, cm, mis, attempt, code, prev_code,
                   prev_error, files>>

(***************************************************************************)
(* cluster_medical_text: KMeans is a library; its result is any assignment *)
(* of the incidents to 0..N_CLUSTERS-1 that gives incidents with the same  *)
(* medical text (the same TF-IDF vector) the same cluster.                 *)
(***************************************************************************)
\* N_CLUSTERS, scaled to the table: KMeans needs at least as many rows as clusters
N_CLUSTERS == NInc \div 2

KMeansResults ==
    {f \in [Incidents -> 0..(N_CLUSTERS - 1)] :
        \A i, j \in Incidents : medical_text[i] = medical_text[j] => f[i] = f[j]}

ClusterMedicalText ==
    /\ pc = "built"
    /\ \E f \in Seeded(first.kmeans, medical_text, KMeansResults) : cluster_id' = f
    /\ written' = written \cup {"tfidf_vectorizer.joblib", "kmeans_model.joblib"}
    /\ pc' = "clustered"
    /\ stdout' = stdout \cup {Line("=== STEP 1: CLUSTERING ALL DATA ===", <<>>),
                             Line("Clustered {len(df):,} rows into {N_CLUSTERS} clusters",
                                  <<NInc, N_CLUSTERS>>)}
    /\ UNCHANGED <<fn, arg, ret, has_lgb, age_group, medical_text, cluster_samples,
                   pending, llm, calls, cluster_summaries, outcome, label_map, risk_label,
                   df_train, df_test, error, tfidf_vocab, ohe_categories,
                   feature_names_cat, feature_names, test_feature_names, report,
                   X_train_df, X_test_df, run, first, split_rows, y_pred_prob, cm, mis,
                   attempt, code, prev_code, prev_error, files>>

(***************************************************************************)
(* sample_clusters                                                         *)
(***************************************************************************)
\* SAMPLES_PER_CLUSTER, scaled to the table so that the largest cluster is
\* larger than the sample
SAMPLES_PER_CLUSTER == NInc - 1

Min(a, b) == IF a <= b THEN a ELSE b

ClusterIds == {cluster_id[i] : i \in Incidents}
Members(cid) == {i \in Incidents : cluster_id[i] = cid}

\* the ascending sequence of a finite set of integers (groupby sorts its keys)
RECURSIVE Ascending(_)
Ascending(S) ==
    IF S = {} THEN <<>>
    ELSE LET m == CHOOSE x \in S : \A y \in S : x <= y
         IN  <<m>> \o Ascending(S \ {m})

SamplesOf_WithReplacement(cid) ==
    LET n == Min(Cardinality(Members(cid)), SAMPLES_PER_CLUSTER)
    IN  {s \in [1..n -> Members(cid)] : \A k \in 1..(n - 1) : s[k] <= s[k + 1]}

\* sub.sample(n).to_dict(orient="records"): a list of n of the cluster's rows,
\* none twice (sample draws without replacement).  A row stands for its record,
\* and the list is kept in ascending row order: the order of a sample plays no
\* part in what follows
SamplesOf(cid) ==
    LET n == Min(Cardinality(Members(cid)), SAMPLES_PER_CLUSTER)
    IN  {Ascending(S) : S \in {T \in SUBSET Members(cid) : Cardinality(T) = n}}

\* the dictionaries sample_clusters can return: a sample for every cluster
\* that has a row
SampleDicts ==
    {out \in [ClusterIds -> UNION {SamplesOf(cid) : cid \in ClusterIds}] :
        \A cid \in ClusterIds :
            out[cid] \in Seeded(first.sample, Members(cid), SamplesOf(cid))}

SampleClusters ==
    /\ pc = "clustered"
    /\ cluster_samples' \in SampleDicts
    /\ pending' = Ascending(ClusterIds)
    /\ calls' = [cid \in ClusterIds |-> 0]
    /\ pc' = "summarizing"
    /\ stdout' = stdout \cup {Line("=== STEP 2: LLM SUMMARIZATION & LABELING ===", <<>>)}
    /\ UNCHANGED <<fn, arg, ret, has_lgb, age_group, medical_text, cluster_id, llm,
                   cluster_summaries, outcome, label_map, risk_label, df_train, df_test,
                   written, error, tfidf_vocab, ohe_categories, feature_names_cat,
                   feature_names, test_feature_names, report, X_train_df, X_test_df, run,
                   first, split_rows, y_pred_prob, cm, mis, attempt, code, prev_code,
                   prev_error, files>>

(***************************************************************************)
(* LLMClient: _post_with_retry, ask, summarize_cluster, and the            *)
(* summarization loop of run_pipeline around them.                         *)
(***************************************************************************)
max_retries == 5

\* what resp.json() can hold: the shapes ask() tells apart
Message(content) == [k |-> "message", content |-> content]
Missing == [t |-> "missing"]

LLMData == {
    Message(Str("Cardiac Arrest cases, ALS. Risk: HIGH")),
    Message(Str("Minor sprains, no transport. Risk: LOW")),
    [k |-> "response", v |-> Str("Stable patients taken to ED")],
    Message(None),                  \* "content": null
    Message(Missing),               \* {"message": {}}
    [k |-> "message_not_dict"],     \* {"message": "..."}: .get raises AttributeError
    [k |-> "choices", v |-> <<>>],  \* {"choices": []}: [0] raises IndexError
    [k |-> "empty"],                \* {}
    [k |-> "other", repr |-> Str("{'error': 'model not found'}")] }

\* ask(), after _post_with_retry returned data (None when the retries ran out):
\* the text returned, or Raised when reading the response raises
AskResult(data) ==
    IF data = None \/ data.k = "empty" THEN Str("")
    ELSE IF data.k = "message"
         THEN (IF data.content = Missing THEN Str("") ELSE data.content)
    ELSE IF data.k = "message_not_dict" THEN Raised
    ELSE IF data.k = "response" THEN data.v
    ELSE IF data.k = "choices"
         THEN (IF Len(data.v) = 0 THEN Raised ELSE data.v[1])
    ELSE data.repr

\* Python truthiness of a returned text
Falsy(v) == v = None \/ v = Str("")

RecordedSummaryEmptyKept(result) ==
    IF result = Raised THEN Str("[ERROR]") ELSE result

\* lines 174-180: what the loop records for a call that returned result
RecordedSummary(result) ==
    IF result = Raised THEN Str("[ERROR]")
    ELSE IF Falsy(result) THEN Str("[NO LLM RESPONSE]")
    ELSE result

Record_StopOnFailure(cid, result, how) ==
    /\ cluster_summaries' = cluster_summaries @@ (cid :> [summary |-> RecordedSummary(result)])
    /\ outcome' = outcome @@ (cid :> how)
    /\ pending' = IF result = Raised \/ Falsy(result) THEN <<>> ELSE Tail(pending)
    /\ llm' = Idle(llm.phase = "sleep")
    /\ pc' = IF pending' = <<>> THEN "summarized" ELSE "summarizing"

\* line 181, and the loop's advance; how: "exhausted" (the retries ran out),
\* "raised" (reading the response raised) or "returned"
Record(cid, result, how) ==
    /\ cluster_summaries' = cluster_summaries @@ (cid :> [summary |-> RecordedSummary(result)])
    /\ outcome' = outcome @@ (cid :> how)
    /\ pending' = Tail(pending)
    /\ llm' = Idle(llm.phase = "sleep")
    /\ pc' = IF Tail(pending) = <<>> THEN "summarized" ELSE "summarizing"

\* the collaborator answers the same prompt (the cluster id and its samples) as
\* it did in the first run, as far as run_pipeline records the answer
SameResponse(cid, result, how) ==
    Replayed(first.responses, <<cid, cluster_samples[cid]>>,
             {<<how, RecordedSummary(result)>>}) # {}

\* the loop takes the next cluster and summarize_cluster -> ask ->
\* _post_with_retry starts: retries = max_retries, delay = 1.0, attempt = 1.
\* In phase "post" the request of attempt number llm.attempt is in flight;
\* tries holds how the earlier attempts ended and slept the time.sleep calls
\* _post_with_retry has made, in seconds
BeginSummarize ==
    /\ pc = "summarizing" /\ llm.phase = "idle" /\ pending # <<>>
    /\ calls' = [calls EXCEPT ![Head(pending)] = @ + 1]
    /\ llm' = [phase |-> "post", cid |-> Head(pending), attempt |-> 1, delay |-> 1,
               slept |-> <<>>, tries |-> <<>>]
    /\ UNCHANGED <<fn, arg, ret, pc, has_lgb, age_group, medical_text, cluster_id,
                   cluster_samples, pending, cluster_summaries, outcome, label_map,
                   risk_label, df_train, df_test, written, error, tfidf_vocab,
                   ohe_categories, feature_names_cat, feature_names, test_feature_names,
                   stdout, report, X_train_df, X_test_df, run, first, split_rows,
                   y_pred_prob, cm, mis, attempt, code, prev_code, prev_error, files>>

\* _post_with_retry has returned and ask has read the response: summarize_cluster
\* is in its time.sleep (line 168) when ask returned a text, and the exception
\* is on its way to run_pipeline's except clause when ask raised
AfterAsk(tries, slept, text, how) ==
    [phase |-> IF text = Raised THEN "except" ELSE "sleep", cid |-> llm.cid,
     attempt |-> llm.attempt, delay |-> llm.delay, slept |-> slept, tries |-> tries,
     text |-> text, how |-> how]

PostFailRetry_NoCeiling ==
    /\ pc = "summarizing" /\ llm.phase = "post" /\ llm.attempt <= max_retries
    /\ llm' = [llm EXCEPT !.attempt = @ + 1, !.delay = 2 * @,
                          !.slept = Append(@, llm.delay), !.tries = Append(@, "failed")]
    /\ stdout' = stdout \cup {Line("[LLMClient] Error (attempt {attempt}/{retries}): {e}", <<>>)}
    /\ UNCHANGED <<fn, arg, ret, pc, has_lgb, age_group, medical_text, cluster_id,
                   cluster_samples, pending, calls, cluster_summaries, outcome, label_map,
                   risk_label, df_train, df_test, written, error, tfidf_vocab,
                   ohe_categories, feature_names_cat, feature_names, test_feature_names,
                   report, X_train_df, X_test_df, run, first, split_rows, y_pred_prob, cm,
                   mis, attempt, code, prev_code, prev_error, files>>

PostFailRetry_LinearBackoff ==
    /\ pc = "summarizing" /\ llm.phase = "post" /\ llm.attempt < max_retries
    /\ llm' = [llm EXCEPT !.attempt = @ + 1, !.delay = @ + 1,
                          !.slept = Append(@, llm.delay), !.tries = Append(@, "failed")]
    /\ stdout' = stdout \cup {Line("[LLMClient] Error (attempt {attempt}/{retries}): {e}", <<>>)}
    /\ UNCHANGED <<fn, arg, ret, pc, has_lgb, age_group, medical_text, cluster_id,
                   cluster_samples, pending, calls, cluster_summaries, outcome, label_map,
                   risk_label, df_train, df_test, written, error, tfidf_vocab,
                   ohe_categories, feature_names_cat, feature_names, test_feature_names,
                   report, X_train_df, X_test_df, run, first, split_rows, y_pred_prob, cm,
                   mis, attempt, code, prev_code, prev_error, files>>

\* an attempt fails (the post, raise_for_status or json() raises) before the
\* last one: sleep(delay), delay *= 2, next attempt
PostFailRetry ==
    /\ pc = "summarizing" /\ llm.phase = "post" /\ llm.attempt < max_retries
    /\ llm' = [llm EXCEPT !.attempt = @ + 1, !.delay = 2 * @,
                          !.slept = Append(@, llm.delay), !.tries = Append(@, "failed")]
    /\ stdout' = stdout \cup {Line("[LLMClient] Error (attempt {attempt}/{retries}): {e}", <<>>)}
    /\ UNCHANGED <<fn, arg, ret, pc, has_lgb, age_group, medical_text, cluster_id,
                   cluster_samples, pending, calls, cluster_summaries, outcome, label_map,
                   risk_label, df_train, df_test, written, error, tfidf_vocab,
                   ohe_categories, feature_names_cat, feature_names, test_feature_names,
                   report, X_train_df, X_test_df, run, first, split_rows, y_pred_prob, cm,
                   mis, attempt, code, prev_code, prev_error, files>>

\* the last attempt fails: _post_with_retry returns None without sleeping and
\* ask returns ""
PostFailLast ==
    /\ pc = "summarizing" /\ llm.phase = "post" /\ llm.attempt = max_retries
    /\ SameResponse(llm.cid, AskResult(None), "exhausted")
    /\ llm' = AfterAsk(Append(llm.tries, "failed"), llm.slept, AskResult(None), "exhausted")
    /\ stdout' = stdout \cup {Line("[LLMClient] Error (attempt {attempt}/{retries}): {e}", <<>>),
                             Line("[LLMClient] Max retries exceeded.", <<>>)}
    /\ UNCHANGED <<fn, arg, ret, pc, has_lgb, age_group, medical_text, cluster_id,
                   cluster_samples, pending, calls, cluster_summaries, outcome, label_map,
                   risk_label, df_train, df_test, written, error, tfidf_vocab,
                   ohe_categories, feature_names_cat, feature_names, test_feature_names,
                   report, X_train_df, X_test_df, run, first, split_rows, y_pred_prob, cm,
                   mis, attempt, code, prev_code, prev_error, files>>

\* an attempt succeeds: _post_with_retry returns the data at once and ask reads
\* the text out of it, or raises
PostOk ==
    /\ pc = "summarizing" /\ llm.phase = "post"
    /\ \E data \in LLMData :
          LET how == IF AskResult(data) = Raised THEN "raised" ELSE "returned"
          IN  /\ SameResponse(llm.cid, AskResult(data), how)
              /\ llm' = AfterAsk(Append(llm.tries, "ok"), llm.slept, AskResult(data), how)
    /\ UNCHANGED <<fn, arg, ret, pc, has_lgb, age_group, medical_text, cluster_id,
                   cluster_samples, pending, calls, cluster_summaries, outcome, label_map,
                   risk_label, df_train, df_test, written, error, tfidf_vocab,
                   ohe_categories, feature_names_cat, feature_names, test_feature_names,
                   stdout, report, X_train_df, X_test_df, run, first, split_rows,
                   y_pred_prob, cm, mis, attempt, code, prev_code, prev_error, files>>

\* lines 168-169 and 176-181: summarize_cluster has slept sleep_between_calls
\* and returns the text; the loop records the summary
SleepBetweenCalls ==
    /\ pc = "summarizing" /\ llm.phase = "sleep"
    /\ Record(llm.cid, llm.text, llm.how)
    /\ UNCHANGED <<fn, arg, ret, has_lgb, age_group, medical_text, cluster_id,
                   cluster_samples, calls, label_map, risk_label, df_train, df_test,
                   written, error, tfidf_vocab, ohe_categories, feature_names_cat,
                   feature_names, test_feature_names, stdout, report, X_train_df,
                   X_test_df, run, first, split_rows, y_pred_prob, cm, mis, attempt, code,
                   prev_code, prev_error, files>>

\* lines 178-181: the exception ask raised has left summarize_cluster before
\* its time.sleep; the loop prints it and records "[ERROR]"
ExceptSummarize ==
    /\ pc = "summarizing" /\ llm.phase = "except"
    /\ Record(llm.cid, llm.text, llm.how)
    /\ stdout' = stdout \cup {Line("LLM summarization failed for cluster {cid}: {e}",
                                    <<llm.cid>>)}
    /\ UNCHANGED <<fn, arg, ret, has_lgb, age_group, medical_text, cluster_id,
                   cluster_samples, calls, label_map, risk_label, df_train, df_test,
                   written, error, tfidf_vocab, ohe_categories, feature_names_cat,
                   feature_names, test_feature_names, report, X_train_df, X_test_df, run,
                   first, split_rows, y_pred_prob, cm, mis, attempt, code, prev_code,
                   prev_error, files>>

\* lines 183-186
WriteSummaries ==
    /\ pc = "summarized"
    /\ written' = written \cup {"cluster_summaries.json"}
    /\ pc' = "summaries_written"
    /\ stdout' = stdout \cup {Line("Wrote cluster summaries to {summaries_path}", <<>>)}
    /\ UNCHANGED <<fn, arg, ret, has_lgb, age_group, medical_text, cluster_id,
                   cluster_samples, pending, llm, calls, cluster_summaries, outcome,
                   label_map, risk_label, df_train, df_test, error, tfidf_vocab,
                   ohe_categories, feature_names_cat, feature_names, test_feature_names,
                   report, X_train_df, X_test_df, run, first, split_rows, y_pred_prob, cm,
                   mis, attempt, code, prev_code, prev_error, files>>

(***************************************************************************)
(* Labeling, lines 188-196.                                                *)
(***************************************************************************)
MappedLabelDefault(map, cid) == "MEDIUM"

\* df["cluster_id"].map(label_map).fillna("MEDIUM") for one incident
MappedLabel(map, cid) == IF cid \in DOMAIN map THEN map[cid] ELSE "MEDIUM"

Label ==
    /\ pc = "summaries_written"
    /\ label_map' = [cid \in DOMAIN cluster_summaries |->
                         extract_label(cluster_summaries[cid].summary)]
    /\ risk_label' = [i \in Incidents |-> MappedLabel(label_map', cluster_id[i])]
    /\ pc' = "labeled"
    /\ stdout' = stdout \cup {Line("Overall label distribution:",
                                    ValueCounts(risk_label', Incidents))}
    /\ UNCHANGED <<fn, arg, ret, has_lgb, age_group, medical_text, cluster_id,
                   cluster_samples, pending, llm, calls, cluster_summaries, outcome,
                   df_train, df_test, written, error, tfidf_vocab, ohe_categories,
                   feature_names_cat, feature_names, test_feature_names, report,
                   X_train_df, X_test_df, run, first, split_rows, y_pred_prob, cm, mis,
                   attempt, code, prev_code, prev_error, files>>

\* cluster_diagnostics
ClusterDiagnostics ==
    /\ pc = "labeled"
    /\ written' = written \cup {"cluster_diagnostics.json"}
    /\ pc' = "diagnosed"
    /\ stdout' = stdout \cup {Line("Wrote cluster diagnostics to {path}", <<>>)}
    /\ UNCHANGED <<fn, arg, ret, has_lgb, age_group, medical_text, cluster_id,
                   cluster_samples, pending, llm, calls, cluster_summaries, outcome,
                   label_map, risk_label, df_train, df_test, error, tfidf_vocab,
                   ohe_categories, feature_names_cat, feature_names, test_feature_names,
                   report, X_train_df, X_test_df, run, first, split_rows, y_pred_prob, cm,
                   mis, attempt, code, prev_code, prev_error, files>>

(***************************************************************************)
(* The stratified split, lines 198-215.  train_test_split is a library:    *)
(* n_test = ceil(0.3 n), n_train = n - n_test; it raises ValueError when a *)
(* class has fewer than 2 members or when n_train or n_test is smaller     *)
(* than the number of classes; otherwise each class gives Train its share  *)
(* of n_train, rounded so that the classes with the largest remainders get *)
(* the extra rows (ties broken by the seeded generator), and Test the rest.*)
(***************************************************************************)
Labels == {"LOW", "MEDIUM", "HIGH"}

NTest(n) == (3 * n + 9) \div 10
NTrain(n) == n - NTest(n)

ClassesOf(lab) == {lab[i] : i \in DOMAIN lab}
CountOf(lab, c) == Cardinality({i \in DOMAIN lab : lab[i] = c})

RECURSIVE SumOver(_, _)
SumOver(f, S) ==
    IF S = {} THEN 0
    ELSE LET x == CHOOSE y \in S : TRUE IN f[x] + SumOver(f, S \ {x})

StratifyFails_SizesOnly(lab) ==
    LET n == Cardinality(DOMAIN lab)
        k == Cardinality(ClassesOf(lab))
    IN  NTrain(n) < k \/ NTest(n) < k

StratifyFails(lab) ==
    LET n == Cardinality(DOMAIN lab)
        k == Cardinality(ClassesOf(lab))
    IN  \/ \E c \in ClassesOf(lab) : CountOf(lab, c) < 2
        \/ NTrain(n) < k
        \/ NTest(n) < k

TrainAllocations_AnyCounts(lab) ==
    LET n == Cardinality(DOMAIN lab)
        cls == ClassesOf(lab)
    IN  {a \in [cls -> 0..NTrain(n)] :
            /\ \A c \in cls : a[c] <= CountOf(lab, c)
            /\ SumOver(a, cls) = NTrain(n)}

\* _approximate_mode: the per-class Train counts
TrainAllocations(lab) ==
    LET n == Cardinality(DOMAIN lab)
        cls == ClassesOf(lab)
        floored == [c \in cls |-> (CountOf(lab, c) * NTrain(n)) \div n]
        rem == [c \in cls |-> (CountOf(lab, c) * NTrain(n)) % n]
        need == NTrain(n) - SumOver(floored, cls)
        tops == {S \in SUBSET cls :
                    /\ Cardinality(S) = need
                    /\ \A c \in S, d \in cls \ S : rem[c] >= rem[d]}
    IN  {[c \in cls |-> floored[c] + (IF c \in S THEN 1 ELSE 0)] : S \in tops}

\* the ways to take k rows of the class c (no row when the class is absent)
Picks(lab, a, c) ==
    IF c \in ClassesOf(lab)
    THEN {S \in SUBSET {i \in DOMAIN lab : lab[i] = c} : Cardinality(S) = a[c]}
    ELSE {{}}

\* the Train sets train_test_split can return: per class, as many rows as an
\* allocation gives it, any rows of the class (the seeded permutation)
StratifiedSplits(lab) ==
    UNION {{x \cup y \cup z : x \in Picks(lab, a, "LOW"), y \in Picks(lab, a, "MEDIUM"),
                              z \in Picks(lab, a, "HIGH")} :
           a \in TrainAllocations(lab)}

\* the rows train_test_split hands out: copies of the rows of df, with the
\* columns df has at that point (cluster_id is absent from the label columns
\* that are split alone)
RowsOf(rows) ==
    [i \in rows |-> [cluster_id |-> IF i \in DOMAIN cluster_id THEN cluster_id[i] ELSE None,
                     risk_label |-> risk_label[i]]]

Split ==
    /\ pc = "diagnosed"
    /\ ~StratifyFails(risk_label)
    /\ \E tr \in Seeded(first.split, risk_label, StratifiedSplits(risk_label)) :
          /\ df_train' = tr
          /\ df_test' = (DOMAIN risk_label) \ tr
    /\ split_rows' = RowsOf(DOMAIN risk_label)
    /\ written' = written \cup {"train_set.csv", "test_set.csv"}
    /\ pc' = "split"
    /\ stdout' = stdout \cup
          {Line("=== STEP 3: STRATIFIED SPLIT (70% train, 30% test) ===", <<>>),
           Line("Train set: {len(df_train):,} rows", <<Cardinality(df_train')>>),
           Line("Train distribution:", ValueCounts(risk_label, df_train')),
           Line("Test set: {len(df_test):,} rows", <<Cardinality(df_test')>>),
           Line("Test distribution:", ValueCounts(risk_label, df_test'))}
    /\ UNCHANGED <<fn, arg, ret, has_lgb, age_group, medical_text, cluster_id,
                   cluster_samples, pending, llm, calls, cluster_summaries, outcome,
                   label_map, risk_label, error, tfidf_vocab, ohe_categories,
                   feature_names_cat, feature_names, test_feature_names, report,
                   X_train_df, X_test_df, run, first, y_pred_prob, cm, mis, attempt, code,
                   prev_code, prev_error, files>>

\* train_test_split raises: the exception leaves run_pipeline
SplitFails ==
    /\ pc = "diagnosed"
    /\ StratifyFails(risk_label)
    /\ error' = "ValueError"
    /\ pc' = "failed"
    /\ stdout' = stdout \cup {Line("=== STEP 3: STRATIFIED SPLIT (70% train, 30% test) ===", <<>>)}
    /\ UNCHANGED <<fn, arg, ret, has_lgb, age_group, medical_text, cluster_id,
                   cluster_samples, pending, llm, calls, cluster_summaries, outcome,
                   label_map, risk_label, df_train, df_test, written, tfidf_vocab,
                   ohe_categories, feature_names_cat, feature_names, test_feature_names,
                   report, X_train_df, X_test_df, run, first, split_rows, y_pred_prob, cm,
                   mis, attempt, code, prev_code, prev_error, files>>

(***************************************************************************)
(* The split alone, on label columns of up to MaxSplitRows rows: LOW and   *)
(* HIGH are minorities of up to MaxMinority rows, MEDIUM holds the rest.   *)
(***************************************************************************)
MaxSplitRows == 17
MaxMinority == 4

LabelColumn(l, m, h) ==
    [i \in 1..(l + m + h) |-> IF i <= l THEN "LOW" ELSE IF i <= l + m THEN "MEDIUM" ELSE "HIGH"]

SplitInputs ==
    {LabelColumn(c[1], c[2], c[3]) :
        c \in {x \in (0..MaxMinority) \X (0..MaxSplitRows) \X (0..MaxMinority) :
                  x[1] + x[2] + x[3] \in 1..MaxSplitRows}}

InitSplit ==
    /\ fn = "train_test_split" /\ arg = None /\ ret = NotYet
    /\ pc = "diagnosed" /\ has_lgb = FALSE
    /\ risk_label \in SplitInputs
    /\ age_group = EmptyMap /\ medical_text = EmptyMap /\ cluster_id = EmptyMap
    /\ cluster_samples = EmptyMap /\ pending = <<>> /\ llm = NoCall
    /\ calls = EmptyMap /\ cluster_summaries = EmptyMap /\ outcome = EmptyMap
    /\ label_map = EmptyMap /\ df_train = {} /\ df_test = {}
    /\ written = {} /\ error = ""
    /\ tfidf_vocab = {} /\ ohe_categories = <<>> /\ feature_names_cat = <<>>
    /\ feature_names = <<>> /\ test_feature_names = <<>>
    /\ stdout = {} /\ report = <<>>
    /\ X_train_df = EmptyMap /\ X_test_df = EmptyMap
    /\ run = 1 /\ first = NoMemo
    /\ split_rows = EmptyMap /\ y_pred_prob = EmptyMap /\ cm = <<>> /\ mis = EmptyMap
    /\ attempt = 0 /\ code = None /\ prev_code = None /\ prev_error = None /\ files = EmptyMap

SkipTraining_Early ==
    /\ pc = "diagnosed"
    /\ ~has_lgb
    /\ stdout' = stdout \cup {Line("LightGBM not available; skipping classifier training.", <<>>)}
    /\ pc' = "returned"
    /\ UNCHANGED <<fn, arg, ret, has_lgb, age_group, medical_text, cluster_id,
                   cluster_samples, pending, llm, calls, cluster_summaries, outcome,
                   label_map, risk_label, df_train, df_test, written, error, tfidf_vocab,
                   ohe_categories, feature_names_cat, feature_names, test_feature_names,
                   report, X_train_df, X_test_df, run, first, split_rows, y_pred_prob, cm,
                   mis, attempt, code, prev_code, prev_error, files>>

\* lines 218-220
SkipTraining ==
    /\ pc = "split"
    /\ ~has_lgb
    /\ pc' = "returned"
    /\ stdout' = stdout \cup {Line("LightGBM not available; skipping classifier training.", <<>>)}
    /\ UNCHANGED <<fn, arg, ret, has_lgb, age_group, medical_text, cluster_id,
                   cluster_samples, pending, llm, calls, cluster_summaries, outcome,
                   label_map, risk_label, df_train, df_test, written, error, tfidf_vocab,
                   ohe_categories, feature_names_cat, feature_names, test_feature_names,
                   report, X_train_df, X_test_df, run, first, split_rows, y_pred_prob, cm,
                   mis, attempt, code, prev_code, prev_error, files>>

(***************************************************************************)
(* The feature encoders, lines 226-261 and 286-305.                        *)
(***************************************************************************)
\* \w
IsWordChar(c) == IsLower(c) \/ IsUpper(c) \/ IsDigit(c) \/ c = "_"

\* the words of ENGLISH_STOP_WORDS that can occur in the table's texts
StopWords == {"of", "the", "to", "from", "and", "no", "not"}

RECURSIVE Words(_, _, _)
\* token_pattern (?u)\b\w\w+\b : the maximal runs of two or more word characters
Words(s, i, cur) ==
    IF i > Len(s) THEN (IF Len(cur) >= 2 THEN <<cur>> ELSE <<>>)
    ELSE IF IsWordChar(CharAt(s, i)) THEN Words(s, i + 1, cur \o CharAt(s, i))
    ELSE (IF Len(cur) >= 2 THEN <<cur>> ELSE <<>>) \o Words(s, i + 1, "")

\* the analyzer: lowercase, tokenize, drop stop words
Tokens(text) == SelectSeq(Words(Lower(text), 1, ""), LAMBDA w : w \notin StopWords)

\* ngram_range=(1,2): the tokens and the pairs of neighbours
TermsOf(text) ==
    LET t == Tokens(text)
    IN  {t[i] : i \in 1..Len(t)} \cup {t[i] \o " " \o t[i + 1] : i \in 1..(Len(t) - 1)}

\* the analyzer's result for each text of the table, computed once
TermsTable == [text \in {MedicalTextOf(df[i]) : i \in Incidents} |-> TermsOf(text)]

Terms(text) == TermsTable[text]

TfidfFit_AllRows(rows) == UNION {Terms(medical_text[i]) : i \in Incidents}

\* TfidfVectorizer.fit: the vocabulary of the fitted texts (max_features=500
\* keeps the most frequent terms; a table of NInc short texts never has that
\* many, so every term is kept)
TfidfFit(rows) == UNION {Terms(medical_text[i]) : i \in rows}

TfidfWidthRefit(vocab, rows) == Cardinality(TfidfFit(rows))

\* tfidf.transform(texts).shape[1]: one column per term of the fitted vocabulary
TfidfWidth(vocab, rows) == Cardinality(vocab)

RECURSIVE StrLess(_, _)
\* a < b for Python strings: by code point
StrLess(a, b) ==
    IF Len(b) = 0 THEN FALSE
    ELSE IF Len(a) = 0 THEN TRUE
    ELSE IF CharAt(a, 1) = CharAt(b, 1) THEN StrLess(SubSeq(a, 2, Len(a)), SubSeq(b, 2, Len(b)))
    ELSE Code[CharAt(a, 1)] < Code[CharAt(b, 1)]

RECURSIVE SortedStrings(_)
SortedStrings(S) ==
    IF S = {} THEN <<>>
    ELSE LET m == CHOOSE x \in S : \A y \in S \ {x} : StrLess(x, y)
         IN  <<m>> \o SortedStrings(S \ {m})

\* every term of the table in vocabulary order, computed once
AllTerms == SortedStrings(UNION {TermsTable[text] : text \in DOMAIN TermsTable})

\* the terms of a fitted vocabulary in column order: sorted, as
\* CountVectorizer numbers them
VocabularyOrder(vocab) == SelectSeq(AllTerms, LAMBDA t : t \in vocab)

cat_cols == <<"Patient_Gender", "Incident_County", "Primary_Impression">>

CatCell(i, col) ==
    IF col = "Patient_Gender" THEN df[i].Patient_Gender
    ELSE IF col = "Incident_County" THEN df[i].Incident_County
    ELSE df[i].Primary_Impression

\* df[cat_cols].fillna("unknown").astype(str), one cell
CatValue(i, col) == FillNa(CatCell(i, col), "unknown")

\* OneHotEncoder.fit: categories_, per column the sorted values seen
OheFit(rows) ==
    [c \in 1..Len(cat_cols) |-> SortedStrings({CatValue(i, cat_cols[c]) : i \in rows})]

RECURSIVE SafeChars(_, _)
\* \s+ -> "_", then [^0-9a-z_] -> "_", then _+ -> "_": every character outside
\* [0-9a-z] becomes "_" and a run of them one "_"
SafeChars(s, i) ==
    IF i > Len(s) THEN ""
    ELSE LET c == CharAt(s, i)
             keep(x) == IsDigit(x) \/ IsLower(x)
         IN  (IF keep(c) THEN c
              ELSE IF i = 1 \/ keep(CharAt(s, i - 1)) THEN "_"
              ELSE "")
             \o SafeChars(s, i + 1)

safe_name(s) ==
    LET r == SafeChars(Lower(Strip(s)), 1)
    IN  IF r = "" THEN "na" ELSE r

RECURSIVE IntStr(_)
\* str(k), k >= 0
IntStr(k) ==
    IF k < 10 THEN Chr(Code["0"] + k) ELSE IntStr(k \div 10) \o Chr(Code["0"] + (k % 10))

NextDup_NoProbe(n, k, seen) == k

RECURSIVE NextDup(_, _, _)
\* lines 88-92: the first counter from k on whose name__dupk is not in seen
NextDup(n, k, seen) ==
    IF (n \o "__dup" \o IntStr(k)) \in DOMAIN seen THEN NextDup(n, k + 1, seen) ELSE k

RECURSIVE MakeUniqueFrom(_, _, _, _)
MakeUniqueFrom(names, i, seen, out) ==
    IF i > Len(names) THEN out
    ELSE LET n == names[i]
         IN  IF n \notin DOMAIN seen
             THEN MakeUniqueFrom(names, i + 1, seen @@ (n :> 0), Append(out, n))
             ELSE LET k == NextDup(n, seen[n] + 1, seen)
                      new == n \o "__dup" \o IntStr(k)
                  IN  MakeUniqueFrom(names, i + 1,
                                     (new :> 0) @@ [seen EXCEPT ![n] = k],
                                     Append(out, new))

make_unique(names) == MakeUniqueFrom(names, 1, EmptyMap, <<>>)

\* a Python list
List(v) == [t |-> "list", v |-> v]

\* the lists of up to MaxNames names make_unique is called with: names that
\* repeat, and names that already end in __dup and a number
MaxNames == 4
NamePool == {"a", "b", "a__dup1", "a__dup2"}
NameLists == UNION {[1..n -> NamePool] : n \in 0..MaxNames}

InitUnique == fn = "make_unique" /\ arg \in {List(l) : l \in NameLists} /\ ret = NotYet /\ PipelineOff

CallMakeUnique ==
    /\ fn = "make_unique" /\ ret = NotYet
    /\ ret' = List(make_unique(arg.v))
    /\ UNCHANGED <<fn, arg, pc, has_lgb, age_group, medical_text, cluster_id,
                   cluster_samples, pending, llm, calls, cluster_summaries, outcome,
                   label_map, risk_label, df_train, df_test, written, error, tfidf_vocab,
                   ohe_categories, feature_names_cat, feature_names, test_feature_names,
                   stdout, report, X_train_df, X_test_df, run, first, split_rows,
                   y_pred_prob, cm, mis, attempt, code, prev_code, prev_error, files>>

RECURSIVE Flatten(_)
Flatten(seqs) == IF seqs = <<>> THEN <<>> ELSE Head(seqs) \o Flatten(Tail(seqs))

\* lines 249-256
CatFeatureNames(categories) ==
    make_unique(Flatten(
        [c \in 1..Len(categories) |->
            [j \in 1..Len(categories[c]) |->
                "col" \o IntStr(c - 1) \o "__" \o safe_name(categories[c][j])]]))

numeric_cols == <<"response_time_min", "turnout_time_min", "call_cycle_time_min",
                  "on_scene_time_min">>

\* the columns of pd.concat([numeric and age, tfidf, one-hot], axis=1)
Columns(width, names_cat) ==
    numeric_cols \o <<"patient_age">>
    \o [i \in 1..width |-> "tfidf_" \o IntStr(i - 1)]
    \o names_cat

\* the cell of a numeric column or of Patient_Age
NumericSource(i, col) ==
    IF col = "response_time_min" THEN df[i].response_time_min
    ELSE IF col = "turnout_time_min" THEN df[i].turnout_time_min
    ELSE IF col = "call_cycle_time_min" THEN df[i].call_cycle_time_min
    ELSE IF col = "on_scene_time_min" THEN df[i].on_scene_time_min
    ELSE df[i].Patient_Age

\* pd.to_numeric(cell, errors="coerce"): a number stays, text is parsed, and
\* what cannot be parsed is NaN
ToNumeric(cell) ==
    IF cell.t = "num" \/ cell.t = "nan" THEN cell
    ELSE IF FloatOf(cell) = Raised THEN NaN
    ELSE FloatOf(cell)

NumericCell_NoFill(i, col) == ToNumeric(NumericSource(i, col))

\* pd.to_numeric(..., errors="coerce").fillna(-1), one cell
NumericCell(i, col) ==
    LET v == ToNumeric(NumericSource(i, col))
    IN  IF v = NaN THEN Num(-100) ELSE v

\* a TF-IDF weight: positive when the term occurs in the text, else 0
Weight(occurs) == [t |-> "weight", positive |-> occurs]

\* tfidf.transform, one row: a weight per term of the vocabulary, in its
\* (alphabetical) column order
TfidfRow(i, terms) ==
    LET mine == Terms(medical_text[i])
    IN  [k \in 1..Len(terms) |-> Weight(terms[k] \in mine)]

OheRow_UnknownAsFirst(i, categories) ==
    Flatten([c \in 1..Len(categories) |->
        [j \in 1..Len(categories[c]) |->
            IF CatValue(i, cat_cols[c]) \in {categories[c][k] : k \in 1..Len(categories[c])}
            THEN Num(IF categories[c][j] = CatValue(i, cat_cols[c]) THEN 100 ELSE 0)
            ELSE Num(IF j = 1 THEN 100 ELSE 0)]])

\* ohe.transform with handle_unknown="ignore", one row: per column, 1.0 at the
\* row's category and 0.0 elsewhere; a category not in categories_ gives no 1.0
OheRow(i, categories) ==
    Flatten([c \in 1..Len(categories) |->
        [j \in 1..Len(categories[c]) |->
            Num(IF categories[c][j] = CatValue(i, cat_cols[c]) THEN 100 ELSE 0)]])

\* the feature matrix of rows: numeric columns, patient_age, TF-IDF, one-hot
FeatureMatrix(rows, vocab, categories) ==
    LET terms == VocabularyOrder(vocab)
    IN  [i \in rows |->
            [k \in 1..Len(numeric_cols) |-> NumericCell(i, numeric_cols[k])]
            \o <<NumericCell(i, "Patient_Age")>>
            \o TfidfRow(i, terms)
            \o OheRow(i, categories)]

\* lines 226-261: fit on Train, build Train's matrix
FitEncoders ==
    /\ pc = "split"
    /\ has_lgb
    /\ tfidf_vocab' = TfidfFit(df_train)
    /\ ohe_categories' = OheFit(df_train)
    /\ feature_names_cat' = CatFeatureNames(ohe_categories')
    /\ feature_names' = Columns(TfidfWidth(tfidf_vocab', df_train), feature_names_cat')
    /\ written' = written \cup {"tfidf_classifier.joblib"}
    /\ pc' = "fitted"
    /\ stdout' = stdout \cup {Line("=== STEP 4: TRAINING CLASSIFIER ===", <<>>),
                             Line("Using BOTH medical text AND operational features", <<>>)}
    /\ X_train_df' = FeatureMatrix(df_train, tfidf_vocab', ohe_categories')
    /\ UNCHANGED <<fn, arg, ret, has_lgb, age_group, medical_text, cluster_id,
                   cluster_samples, pending, llm, calls, cluster_summaries, outcome,
                   label_map, risk_label, df_train, df_test, error, test_feature_names,
                   report, X_test_df, run, first, split_rows, y_pred_prob, cm, mis,
                   attempt, code, prev_code, prev_error, files>>

\* {"LOW": 0, "MEDIUM": 1, "HIGH": 2}
LabelCode(l) == IF l = "LOW" THEN 0 ELSE IF l = "MEDIUM" THEN 1 ELSE 2

\* lines 263-280
Train ==
    /\ pc = "fitted"
    /\ written' = written \cup {"classifier_model.joblib"}
    /\ pc' = "trained"
    /\ stdout' = stdout \cup {Line("Training LightGBM...", <<>>),
                             Line("Model trained on {len(df_train):,} samples",
                                  <<Cardinality(df_train)>>)}
    /\ UNCHANGED <<fn, arg, ret, has_lgb, age_group, medical_text, cluster_id,
                   cluster_samples, pending, llm, calls, cluster_summaries, outcome,
                   label_map, risk_label, df_train, df_test, error, tfidf_vocab,
                   ohe_categories, feature_names_cat, feature_names, test_feature_names,
                   report, X_train_df, X_test_df, run, first, split_rows, y_pred_prob, cm,
                   mis, attempt, code, prev_code, prev_error, files>>

\* lines 286-305: the fitted encoders applied to Test
TransformTest ==
    /\ pc = "trained"
    /\ test_feature_names' = Columns(TfidfWidth(tfidf_vocab, df_test), feature_names_cat)
    /\ pc' = "transformed"
    /\ stdout' = stdout \cup {Line("=== STEP 5: EVALUATION ON TEST SET ===", <<>>)}
    /\ X_test_df' = FeatureMatrix(df_test, tfidf_vocab, ohe_categories)
    /\ UNCHANGED <<fn, arg, ret, has_lgb, age_group, medical_text, cluster_id,
                   cluster_samples, pending, llm, calls, cluster_summaries, outcome,
                   label_map, risk_label, df_train, df_test, written, error, tfidf_vocab,
                   ohe_categories, feature_names_cat, feature_names, report, X_train_df,
                   run, first, split_rows, y_pred_prob, cm, mis, attempt, code, prev_code,
                   prev_error, files>>

\* the probability vectors the model gives, in hundredths: one per class
\* that stands out, with a tie between MEDIUM and HIGH among them
ProbVectors == {<<70, 20, 10>>, <<20, 40, 40>>, <<10, 20, 70>>}

ArgMax_OneBased(p) ==
    CHOOSE k \in 1..Len(p) :
        /\ \A j \in 1..Len(p) : p[j] <= p[k]
        /\ \A j \in 1..(k - 1) : p[j] < p[k]

\* np.argmax over one row: the first index (from 0) of the largest value
ArgMax(p) ==
    CHOOSE k \in 0..(Len(p) - 1) :
        /\ \A j \in 1..Len(p) : p[j] <= p[k + 1]
        /\ \A j \in 1..k : p[j] < p[k + 1]

\* lines 307-311: the model's probabilities for the Test rows; rows with the
\* same features get the same probabilities
Predict ==
    /\ pc = "transformed"
    /\ \E p \in [df_test -> ProbVectors] :
          /\ \A i, j \in df_test : X_test_df[i] = X_test_df[j] => p[i] = p[j]
          /\ y_pred_prob' = p
    /\ pc' = "predicted"
    /\ UNCHANGED <<fn, arg, ret, has_lgb, age_group, medical_text, cluster_id,
                   cluster_samples, pending, llm, calls, cluster_summaries, outcome,
                   label_map, risk_label, df_train, df_test, written, error, tfidf_vocab,
                   ohe_categories, feature_names_cat, feature_names, test_feature_names,
                   stdout, report, X_train_df, X_test_df, run, first, split_rows, cm, mis,
                   attempt, code, prev_code, prev_error, files>>

\* y_test and y_pred of one Test row
TrueCode(i) == LabelCode(split_rows[i].risk_label)
PredCode(i) == ArgMax(y_pred_prob[i])

\* confusion_matrix(y_test, y_pred, labels=[0,1,2]): rows true, columns predicted
ConfusionMatrix ==
    [t \in 1..3 |-> [p \in 1..3 |->
        Cardinality({i \in df_test : TrueCode(i) = t - 1 /\ PredCode(i) = p - 1})]]

LabelName(c) == IF c = 0 THEN "LOW" ELSE IF c = 1 THEN "MEDIUM" ELSE "HIGH"

Misclassified_OverwritesLabel ==
    [i \in {j \in df_test : PredCode(j) # TrueCode(j)} |->
        [cluster_id |-> split_rows[i].cluster_id, risk_label |-> LabelName(PredCode(i)),
         _pred_label |-> PredCode(i), _pred_prob_LOW |-> y_pred_prob[i][1],
         _pred_prob_MEDIUM |-> y_pred_prob[i][2], _pred_prob_HIGH |-> y_pred_prob[i][3],
         _true_label |-> TrueCode(i)]]

\* lines 338-345: the Test rows with their annotations, those whose
\* _pred_label differs from _true_label
Misclassified ==
    [i \in {j \in df_test : PredCode(j) # TrueCode(j)} |->
        [cluster_id |-> split_rows[i].cluster_id, risk_label |-> split_rows[i].risk_label,
         _pred_label |-> PredCode(i), _pred_prob_LOW |-> y_pred_prob[i][1],
         _pred_prob_MEDIUM |-> y_pred_prob[i][2], _pred_prob_HIGH |-> y_pred_prob[i][3],
         _true_label |-> TrueCode(i)]]

Evaluate_BeforePredict ==
    /\ pc = "transformed"
    /\ cm' = [t \in 1..3 |-> [p \in 1..3 |-> 0]]
    /\ mis' = EmptyMap
    /\ written' = written \cup {"classifier_report.txt", "confusion_matrix.csv",
                                "misclassified_samples.csv"}
    /\ pc' = "done"
    /\ report' = <<Line("=== DATA SPLIT ===", <<>>),
                   Line("Train: {len(df_train):,} rows (70%)", <<Cardinality(df_train)>>),
                   Line("Test: {len(df_test):,} rows (30%)", <<Cardinality(df_test)>>),
                   Line("=== STRATIFIED CLASS DISTRIBUTION ===", <<>>),
                   Line("Train:", ValueCounts(risk_label, df_train)),
                   Line("Test:", ValueCounts(risk_label, df_test)),
                   Line("=== Classification Report ===", <<>>),
                   Line("=== Confusion Matrix ===", <<>>)>>
    /\ stdout' = stdout \cup {Line("Saved classification report to {report_path}", <<>>),
                             Line("Saved {len(mis):,} misclassified samples to {mis_path}",
                                  <<0>>),
                             Line("=== PIPELINE COMPLETE ===", <<>>)}
    /\ UNCHANGED <<fn, arg, ret, has_lgb, age_group, medical_text, cluster_id,
                   cluster_samples, pending, llm, calls, cluster_summaries, outcome,
                   label_map, risk_label, df_train, df_test, error, tfidf_vocab,
                   ohe_categories, feature_names_cat, feature_names, test_feature_names,
                   X_train_df, X_test_df, run, first, split_rows, y_pred_prob, attempt,
                   code, prev_code, prev_error, files>>

\* lines 313-350
Evaluate ==
    /\ pc = "predicted"
    /\ cm' = ConfusionMatrix
    /\ mis' = Misclassified
    /\ written' = written \cup {"classifier_report.txt", "confusion_matrix.csv",
                                "misclassified_samples.csv"}
    /\ pc' = "done"
    /\ report' = <<Line("=== DATA SPLIT ===", <<>>),
                   Line("Train: {len(df_train):,} rows (70%)", <<Cardinality(df_train)>>),
                   Line("Test: {len(df_test):,} rows (30%)", <<Cardinality(df_test)>>),
                   Line("=== STRATIFIED CLASS DISTRIBUTION ===", <<>>),
                   Line("Train:", ValueCounts(risk_label, df_train)),
                   Line("Test:", ValueCounts(risk_label, df_test)),
                   Line("=== Classification Report ===", <<>>),
                   Line("=== Confusion Matrix ===", <<>>)>>
    /\ stdout' = stdout \cup {Line("Saved classification report to {report_path}", <<>>),
                             Line("Saved {len(mis):,} misclassified samples to {mis_path}",
                                  <<Cardinality(DOMAIN Misclassified)>>),
                             Line("=== PIPELINE COMPLETE ===", <<>>)}
    /\ UNCHANGED <<fn, arg, ret, has_lgb, age_group, medical_text, cluster_id,
                   cluster_samples, pending, llm, calls, cluster_summaries, outcome,
                   label_map, risk_label, df_train, df_test, error, tfidf_vocab,
                   ohe_categories, feature_names_cat, feature_names, test_feature_names,
                   X_train_df, X_test_df, run, first, split_rows, y_pred_prob, attempt,
                   code, prev_code, prev_error, files>>

(***************************************************************************)
(* The pipeline run.                                                       *)
(***************************************************************************)
Init ==
    /\ fn = "none" /\ arg = None /\ ret = NotYet
    /\ pc = "start" /\ has_lgb \in BOOLEAN
    /\ age_group = EmptyMap /\ medical_text = EmptyMap /\ cluster_id = EmptyMap
    /\ cluster_samples = EmptyMap /\ pending = <<>> /\ llm = NoCall
    /\ calls = EmptyMap /\ cluster_summaries = EmptyMap /\ outcome = EmptyMap
    /\ label_map = EmptyMap
    /\ risk_label = EmptyMap /\ df_train = {} /\ df_test = {}
    /\ written = {} /\ error = ""
    /\ tfidf_vocab = {} /\ ohe_categories = <<>> /\ feature_names_cat = <<>>
    /\ feature_names = <<>> /\ test_feature_names = <<>>
    /\ stdout = {} /\ report = <<>>
    /\ X_train_df = EmptyMap /\ X_test_df = EmptyMap
    /\ run = 1 /\ first = NoMemo
    /\ split_rows = EmptyMap /\ y_pred_prob = EmptyMap /\ cm = <<>> /\ mis = EmptyMap
    /\ attempt = 0 /\ code = None /\ prev_code = None /\ prev_error = None /\ files = EmptyMap

\* a first run that a second run will follow; _HAS_LGB plays no part before the
\* end of the split
InitRerun ==
    /\ fn = "none" /\ arg = None /\ ret = NotYet
    /\ pc = "start" /\ has_lgb = FALSE
    /\ age_group = EmptyMap /\ medical_text = EmptyMap /\ cluster_id = EmptyMap
    /\ cluster_samples = EmptyMap /\ pending = <<>> /\ llm = NoCall
    /\ calls = EmptyMap /\ cluster_summaries = EmptyMap /\ outcome = EmptyMap
    /\ label_map = EmptyMap
    /\ risk_label = EmptyMap /\ df_train = {} /\ df_test = {}
    /\ written = {} /\ error = ""
    /\ tfidf_vocab = {} /\ ohe_categories = <<>> /\ feature_names_cat = <<>>
    /\ feature_names = <<>> /\ test_feature_names = <<>>
    /\ stdout = {} /\ report = <<>>
    /\ X_train_df = EmptyMap /\ X_test_df = EmptyMap
    /\ run = 1 /\ first = NoMemo
    /\ split_rows = EmptyMap /\ y_pred_prob = EmptyMap /\ cm = <<>> /\ mis = EmptyMap
    /\ attempt = 0 /\ code = None /\ prev_code = None /\ prev_error = None /\ files = EmptyMap

Next ==
    \/ BuildMedicalText
    \/ ClusterMedicalText
    \/ SampleClusters
    \/ BeginSummarize
    \/ PostFailRetry
    \/ PostFailLast
    \/ PostOk
    \/ SleepBetweenCalls
    \/ ExceptSummarize
    \/ WriteSummaries
    \/ Label
    \/ ClusterDiagnostics
    \/ Split
    \/ SplitFails
    \/ SkipTraining
    \/ FitEncoders
    \/ Train
    \/ TransformTest
    \/ Predict
    \/ Evaluate

\* a second run of the labeling and split stages on the same table, with the
\* same collaborator responses: the first run's draws and results are kept and
\* the run starts again
Rerun ==
    /\ run = 1 /\ pc \in {"split", "failed"}
    /\ run' = 2
    /\ first' =
          [kmeans |-> {[input |-> medical_text, output |-> cluster_id]},
           sample |-> {[input |-> Members(cid), output |-> cluster_samples[cid]] :
                         cid \in DOMAIN cluster_samples},
           split |-> IF pc = "split" THEN {[input |-> risk_label, output |-> df_train]}
                     ELSE {},
           responses |-> {[input |-> <<cid, cluster_samples[cid]>>,
                           output |-> <<outcome[cid], cluster_summaries[cid].summary>>] :
                            cid \in DOMAIN outcome},
           cluster_id |-> cluster_id, cluster_samples |-> cluster_samples,
           label_map |-> label_map, df_train |-> df_train, df_test |-> df_test, pc |-> pc]
    /\ pc' = "start"
    /\ age_group' = EmptyMap /\ medical_text' = EmptyMap /\ cluster_id' = EmptyMap
    /\ cluster_samples' = EmptyMap /\ pending' = <<>> /\ llm' = NoCall
    /\ calls' = EmptyMap /\ cluster_summaries' = EmptyMap /\ outcome' = EmptyMap
    /\ label_map' = EmptyMap /\ risk_label' = EmptyMap /\ df_train' = {} /\ df_test' = {}
    /\ written' = {} /\ error' = "" /\ stdout' = {}
    /\ split_rows' = EmptyMap
    /\ UNCHANGED <<fn, arg, ret, has_lgb, tfidf_vocab, ohe_categories, feature_names_cat,
                   feature_names, test_feature_names, report, X_train_df, X_test_df,
                   y_pred_prob, cm, mis, attempt, code, prev_code, prev_error, files>>

NextRerun ==
    \/ BuildMedicalText
    \/ ClusterMedicalText
    \/ SampleClusters
    \/ BeginSummarize
    \/ PostFailRetry
    \/ PostFailLast
    \/ PostOk
    \/ SleepBetweenCalls
    \/ ExceptSummarize
    \/ WriteSummaries
    \/ Label
    \/ ClusterDiagnostics
    \/ Split
    \/ SplitFails
    \/ Rerun

vars == <<fn, arg, ret, pc, has_lgb, age_group, medical_text, cluster_id, cluster_samples,
          pending, llm, calls, cluster_summaries, outcome, label_map, risk_label, df_train, df_test,
          written, error, tfidf_vocab, ohe_categories, feature_names_cat, feature_names,
          test_feature_names,
          stdout, report,
          X_train_df, X_test_df,
          run, first,
          split_rows, y_pred_prob, cm, mis,
          attempt, code, prev_code, prev_error, files>>

Spec == Init /\ [][Next]_vars
SpecLabel == InitLabel /\ [][CallExtractLabel]_vars
SpecAge == InitAge /\ [][CallPreprocessAge]_vars
SpecUnique == InitUnique /\ [][CallMakeUnique]_vars
SpecSplit == InitSplit /\ [][Split \/ SplitFails]_vars
SpecRerun == InitRerun /\ [][NextRerun]_vars

\* the summarization loop alone, from the state in which run_pipeline enters
\* it (line 173): the table is clustered and sampled, no call has been made
InitClient ==
    /\ fn = "none" /\ arg = None /\ ret = NotYet
    /\ pc = "summarizing" /\ has_lgb = FALSE
    /\ run = 1 /\ first = NoMemo
    /\ age_group = [i \in Incidents |-> preprocess_age(df[i].Patient_Age)]
    /\ medical_text = [i \in Incidents |-> MedicalTextOf(df[i])]
    /\ cluster_id \in KMeansResults
    /\ cluster_samples \in SampleDicts
    /\ pending = Ascending(ClusterIds) /\ llm = NoCall
    /\ calls = [cid \in ClusterIds |-> 0]
    /\ cluster_summaries = EmptyMap /\ outcome = EmptyMap /\ label_map = EmptyMap
    /\ risk_label = EmptyMap /\ df_train = {} /\ df_test = {}
    /\ written = {"tfidf_vectorizer.joblib", "kmeans_model.joblib"} /\ error = ""
    /\ tfidf_vocab = {} /\ ohe_categories = <<>> /\ feature_names_cat = <<>>
    /\ feature_names = <<>> /\ test_feature_names = <<>>
    /\ stdout = {Line("Loaded {len(df):,} rows from {path}", <<NInc>>),
                 Line("=== STEP 1: CLUSTERING ALL DATA ===", <<>>),
                 Line("Clustered {len(df):,} rows into {N_CLUSTERS} clusters",
                      <<NInc, N_CLUSTERS>>),
                 Line("=== STEP 2: LLM SUMMARIZATION & LABELING ===", <<>>)}
    /\ report = <<>>
    /\ X_train_df = EmptyMap /\ X_test_df = EmptyMap
    /\ split_rows = EmptyMap /\ y_pred_prob = EmptyMap /\ cm = <<>> /\ mis = EmptyMap
    /\ attempt = 0 /\ code = None /\ prev_code = None /\ prev_error = None /\ files = EmptyMap

NextClient ==
    \/ BeginSummarize
    \/ PostFailRetry
    \/ PostFailLast
    \/ PostOk
    \/ SleepBetweenCalls
    \/ ExceptSummarize

\* the loop as the interpreter executes it: a single thread that takes its
\* next step whenever it has one; every request ends, with a response or with
\* an exception (the post has a timeout), and every sleep ends
SpecClient == InitClient /\ [][NextClient]_vars /\ WF_vars(NextClient)

(***************************************************************************)
(* cleaning/controller.py: controller_loop.  The log (run_log.txt and the  *)
(* console) is append-only and never read back; it is left out.  A step    *)
(* of the loop is one pass of the for statement; the generator's request   *)
(* and the generated code's execution are taken to end.                    *)
(***************************************************************************)
MAX_ATTEMPTS == 10
SCORE_THRESHOLD == 8
FINAL_CODE_PATH == "final_code.py"

\* an exception that leaves controller_loop
Exc(name) == [t |-> "exc", v |-> name]

\* a DataFrame the generated code leaves in df, by what evaluator_basic looks
\* at: more than a quarter of the columns lost, a larger share of duplicated
\* rows, text columns with leading or trailing blanks
Frame(lost, dups, trim) == [t |-> "frame", lost |-> lost, dups |-> dups, trim |-> trim]

\* str.replace(old, new)
RECURSIVE Replace(_, _, _)
Replace(s, old, new) ==
    IF Len(s) < Len(old) THEN s
    ELSE IF SubSeq(s, 1, Len(old)) = old
         THEN new \o Replace(SubSeq(s, Len(old) + 1, Len(s)), old, new)
         ELSE CharAt(s, 1) \o Replace(SubSeq(s, 2, Len(s)), old, new)

\* the texts llm.chat returns: extract_python_code's result, "" after a failed
\* request
CodeTexts == {"",
              "df = pd.DataFrame(...)",
              "df = DataFrame( ... )",
              "df = df.dropna(",
              "df = None",
              "exit()",
              "df = df.drop_duplicates()",
              "import pd; df = df.dropna()",
              "df = pd.concat([df, df])",
              "df = pd.concat([df, df]).astype(str) + ' '",
              "df = df[df.columns[:1]]"}

\* what gen.generate_initial and gen.generate_repair yield: a text, or the
\* AttributeError of chat's parsing of a response whose choices[0] is not an
\* object with an object under "message"
Generated == {Str(c) : c \in CodeTexts} \cup {Raised}

\* what exec(code, {}, local_vars) does with the table
Exec(c) ==
    CASE c = "df = df.dropna(" -> [kind |-> "raises"]
      [] c = "df = None" -> [kind |-> "no_frame"]
      [] c = "exit()" -> [kind |-> "exits"]
      [] c = "df = df.drop_duplicates()" -> [kind |-> "frame", df |-> Frame(FALSE, FALSE, FALSE)]
      [] c = "import pandas as pd; df = df.dropna()" ->
            [kind |-> "frame", df |-> Frame(FALSE, FALSE, FALSE)]
      [] c = "df = pd.concat([df, df])" -> [kind |-> "frame", df |-> Frame(FALSE, TRUE, FALSE)]
      [] c = "df = pd.concat([df, df]).astype(str) + ' '" ->
            [kind |-> "frame", df |-> Frame(FALSE, TRUE, TRUE)]
      [] c = "df = df[df.columns[:1]]" -> [kind |-> "frame", df |-> Frame(TRUE, TRUE, FALSE)]
      [] OTHER -> [kind |-> "raises"]

\* the index of the first character of s at or after i that is not a blank
RECURSIVE SkipBlanks(_, _)
SkipBlanks(s, i) == IF i <= Len(s) /\ CharAt(s, i) = " " THEN SkipBlanks(s, i + 1) ELSE i

\* PLACEHOLDER_PATTERN.search(code): DataFrame(...) at a word boundary, blanks
\* allowed around the parentheses, in any letter case
PlaceholderPattern(c) ==
    LET s == Lower(c)
    IN  \E i \in 1..(Len(s) - 8) :
            /\ SubSeq(s, i, i + 8) = "dataframe"
            /\ (i = 1 \/ ~IsWordChar(CharAt(s, i - 1)))
            /\ LET j == SkipBlanks(s, i + 9)
                   k == SkipBlanks(s, j + 1)
                   m == SkipBlanks(s, k + 3)
               IN  /\ j <= Len(s) /\ CharAt(s, j) = "("
                   /\ k + 2 <= Len(s) /\ SubSeq(s, k, k + 2) = "..."
                   /\ m <= Len(s) /\ CharAt(s, m) = ")"

\* IMPORT_PD_WRONG.sub("import pandas as pd", code), for texts in which
\* "import pd" is followed by no word character
FixImport(c) == Replace(c, "import pd", "import pandas as pd")

\* CodeExecutor.execute(df, code): (cleaned_df, err), or the SystemExit that
\* except Exception does not catch
execute(c) ==
    IF Strip(c) = "" THEN [df |-> None, err |-> Str("Empty code string")]
    ELSE IF PlaceholderPattern(FixImport(c))
         THEN [df |-> None, err |-> Str("Code contains placeholder DataFrame(...) calls")]
    ELSE LET r == Exec(FixImport(c))
         IN  CASE r.kind = "frame" -> [df |-> r.df, err |-> None]
               [] r.kind = "no_frame" ->
                     [df |-> None, err |-> Str("Executed code did not produce a pandas DataFrame named 'df'.")]
               [] r.kind = "raises" -> [df |-> None, err |-> Str("Traceback")]
               [] r.kind = "exits" -> [df |-> None, err |-> Exc("SystemExit")]

\* evaluator_basic(original_df, cleaned_df), for a DataFrame
evaluator_basic(cleaned_df) ==
    LET score == 10 - (IF cleaned_df.lost THEN 3 ELSE 0) - (IF cleaned_df.dups THEN 1 ELSE 0)
                    - (IF cleaned_df.trim THEN 1 ELSE 0)
        notes == (IF cleaned_df.lost THEN <<"Many columns removed">> ELSE <<>>)
                 \o (IF cleaned_df.dups THEN <<"Duplicates increased after cleaning.">> ELSE <<>>)
                 \o (IF cleaned_df.trim THEN <<"Trim issues">> ELSE <<>>)
    IN  [score |-> IF score < 0 THEN 0 ELSE IF score > 10 THEN 10 ELSE score,
         notes |-> IF notes = <<>> THEN <<"Basic checks passed.">> ELSE notes]

\* open(path, "w") and to_csv(path): the file holds content
WriteFile(f, path, content) ==
    [p \in DOMAIN f \cup {path} |->
        IF p = path THEN [content |-> content,
                          writes |-> (IF p \in DOMAIN f THEN f[p].writes ELSE 0) + 1]
        ELSE f[p]]

AttemptPath(n) == "./attempts/attempt_" \o IntStr(n) \o ".py"

\* the attempt paths of the passes, and each output path's fallback
AttemptPaths == [n \in 1..(MAX_ATTEMPTS + 1) |-> AttemptPath(n)]

\* the attempted code is saved at the top of a pass
SaveAttempt == WriteFile(files, AttemptPaths[attempt], "attempted code")

\* output_csv.replace(".csv", "_FAILED.csv")
Fallback(output_csv) == Replace(output_csv, ".csv", "_FAILED.csv")

\* the quick safety check of line 118:  A or B and C  is  A or (B and C)
QuickCheck(c) ==
    \/ Contains(c, "pd.DataFrame(...)")
    \/ (Contains(c, "DataFrame(...)") /\ Contains(c, "pd.DataFrame"))

\* what a pass finds for each text: whether it is empty (line 111), whether the
\* quick check rejects it (line 118), and what execute returns for it (line 129)
Tried == [c \in CodeTexts |-> [empty |-> Strip(c) = "", placeholder |-> QuickCheck(c),
                               executed |-> execute(c)]]

InLoop == fn = "controller_loop" /\ ret = NotYet /\ attempt \in 1..MAX_ATTEMPTS

\* the arguments: whether input_csv exists, and output_csv
OutputPaths == {"out.csv", "out.tsv"}
FallbackPaths == [p \in OutputPaths |-> Fallback(p)]
Arguments == [input_exists : BOOLEAN, output_csv : OutputPaths]

InitController ==
    fn = "controller_loop" /\ arg \in Arguments /\ ret = NotYet /\ PipelineOff

\* the input is not there: sys.exit(1)
InputMissing ==
    /\ fn = "controller_loop" /\ ret = NotYet /\ attempt = 0
    /\ ~arg.input_exists
    /\ ret' = Exc("SystemExit")
    /\ UNCHANGED <<fn, arg, pc, has_lgb, age_group, medical_text, cluster_id,
                   cluster_samples, pending, llm, calls, cluster_summaries, outcome,
                   label_map, risk_label, df_train, df_test, written, error, tfidf_vocab,
                   ohe_categories, feature_names_cat, feature_names, test_feature_names,
                   stdout, report, X_train_df, X_test_df, run, first, split_rows,
                   y_pred_prob, cm, mis, attempt, code, prev_code, prev_error, files>>

\* the table is loaded and the initial request made
GenerateInitial ==
    /\ fn = "controller_loop" /\ ret = NotYet /\ attempt = 0
    /\ arg.input_exists
    /\ \E g \in Generated :
          /\ code' = (IF g = Raised THEN code ELSE g)
          /\ attempt' = (IF g = Raised THEN attempt ELSE 1)
          /\ ret' = (IF g = Raised THEN Exc("AttributeError") ELSE ret)
    /\ UNCHANGED <<fn, arg, pc, has_lgb, age_group, medical_text, cluster_id,
                   cluster_samples, pending, llm, calls, cluster_summaries, outcome,
                   label_map, risk_label, df_train, df_test, written, error, tfidf_vocab,
                   ohe_categories, feature_names_cat, feature_names, test_feature_names,
                   stdout, report, X_train_df, X_test_df, run, first, split_rows,
                   y_pred_prob, cm, mis, prev_code, prev_error, files>>

\* a pass with empty code: the initial request is made again
EmptyCode ==
    /\ InLoop /\ Tried[code.v].empty
    /\ files' = SaveAttempt
    /\ \E g \in Generated :
          /\ code' = (IF g = Raised THEN code ELSE g)
          /\ attempt' = (IF g = Raised THEN attempt ELSE attempt + 1)
          /\ ret' = (IF g = Raised THEN Exc("AttributeError") ELSE ret)
    /\ UNCHANGED <<fn, arg, pc, has_lgb, age_group, medical_text, cluster_id,
                   cluster_samples, pending, llm, calls, cluster_summaries, outcome,
                   label_map, risk_label, df_train, df_test, written, error, tfidf_vocab,
                   ohe_categories, feature_names_cat, feature_names, test_feature_names,
                   stdout, report, X_train_df, X_test_df, run, first, split_rows,
                   y_pred_prob, cm, mis, prev_code, prev_error>>

\* a pass with code the quick check rejects: a repair is requested
Placeholder ==
    /\ InLoop /\ ~Tried[code.v].empty /\ Tried[code.v].placeholder
    /\ files' = SaveAttempt
    /\ prev_code' = code
    /\ prev_error' = Str("Detected placeholder DataFrame(...) in code; remove placeholder and operate on existing df.")
    /\ \E g \in Generated :
          /\ code' = (IF g = Raised THEN code ELSE g)
          /\ attempt' = (IF g = Raised THEN attempt ELSE attempt + 1)
          /\ ret' = (IF g = Raised THEN Exc("AttributeError") ELSE ret)
    /\ UNCHANGED <<fn, arg, pc, has_lgb, age_group, medical_text, cluster_id,
                   cluster_samples, pending, llm, calls, cluster_summaries, outcome,
                   label_map, risk_label, df_train, df_test, written, error, tfidf_vocab,
                   ohe_categories, feature_names_cat, feature_names, test_feature_names,
                   stdout, report, X_train_df, X_test_df, run, first, split_rows,
                   y_pred_prob, cm, mis>>

\* a pass whose execution returns an error: a repair is requested
RuntimeError ==
    /\ InLoop /\ ~Tried[code.v].empty /\ ~Tried[code.v].placeholder
    /\ Tried[code.v].executed.err \notin {None, Exc("SystemExit")}
    /\ files' = SaveAttempt
    /\ prev_code' = code
    /\ prev_error' = Tried[code.v].executed.err
    /\ \E g \in Generated :
          /\ code' = (IF g = Raised THEN code ELSE g)
          /\ attempt' = (IF g = Raised THEN attempt ELSE attempt + 1)
          /\ ret' = (IF g = Raised THEN Exc("AttributeError") ELSE ret)
    /\ UNCHANGED <<fn, arg, pc, has_lgb, age_group, medical_text, cluster_id,
                   cluster_samples, pending, llm, calls, cluster_summaries, outcome,
                   label_map, risk_label, df_train, df_test, written, error, tfidf_vocab,
                   ohe_categories, feature_names_cat, feature_names, test_feature_names,
                   stdout, report, X_train_df, X_test_df, run, first, split_rows,
                   y_pred_prob, cm, mis>>

\* a pass whose code calls exit(): SystemExit leaves execute and controller_loop
ExecuteExits ==
    /\ InLoop /\ ~Tried[code.v].empty /\ ~Tried[code.v].placeholder
    /\ Tried[code.v].executed.err = Exc("SystemExit")
    /\ files' = SaveAttempt
    /\ ret' = Exc("SystemExit")
    /\ UNCHANGED <<fn, arg, pc, has_lgb, age_group, medical_text, cluster_id,
                   cluster_samples, pending, llm, calls, cluster_summaries, outcome,
                   label_map, risk_label, df_train, df_test, written, error, tfidf_vocab,
                   ohe_categories, feature_names_cat, feature_names, test_feature_names,
                   stdout, report, X_train_df, X_test_df, run, first, split_rows,
                   y_pred_prob, cm, mis, attempt, code, prev_code, prev_error>>

\* a pass whose code runs and scores below the threshold: a repair is requested
BelowThreshold ==
    /\ InLoop /\ ~Tried[code.v].empty /\ ~Tried[code.v].placeholder
    /\ Tried[code.v].executed.err = None
    /\ evaluator_basic(Tried[code.v].executed.df).score < SCORE_THRESHOLD
    /\ files' = SaveAttempt
    /\ prev_code' = code
    /\ prev_error' = Str("No runtime error but failed evaluator checks.")
    /\ \E g \in Generated :
          /\ code' = (IF g = Raised THEN code ELSE g)
          /\ attempt' = (IF g = Raised THEN attempt ELSE attempt + 1)
          /\ ret' = (IF g = Raised THEN Exc("AttributeError") ELSE ret)
    /\ UNCHANGED <<fn, arg, pc, has_lgb, age_group, medical_text, cluster_id,
                   cluster_samples, pending, llm, calls, cluster_summaries, outcome,
                   label_map, risk_label, df_train, df_test, written, error, tfidf_vocab,
                   ohe_categories, feature_names_cat, feature_names, test_feature_names,
                   stdout, report, X_train_df, X_test_df, run, first, split_rows,
                   y_pred_prob, cm, mis>>

\* a pass whose code runs and reaches the threshold: the cleaned table, the
\* code and the metadata are saved and the cleaned table returned
Succeed ==
    /\ InLoop /\ ~Tried[code.v].empty /\ ~Tried[code.v].placeholder
    /\ Tried[code.v].executed.err = None
    /\ evaluator_basic(Tried[code.v].executed.df).score >= SCORE_THRESHOLD
    /\ files' = WriteFile(WriteFile(WriteFile(SaveAttempt,
                    arg.output_csv, Tried[code.v].executed.df),
                    FINAL_CODE_PATH, code.v),
                    "./attempts/meta.json",
                    [attempts |-> attempt, score |-> evaluator_basic(Tried[code.v].executed.df).score])
    /\ ret' = Tried[code.v].executed.df
    /\ UNCHANGED <<fn, arg, pc, has_lgb, age_group, medical_text, cluster_id,
                   cluster_samples, pending, llm, calls, cluster_summaries, outcome,
                   label_map, risk_label, df_train, df_test, written, error, tfidf_vocab,
                   ohe_categories, feature_names_cat, feature_names, test_feature_names,
                   stdout, report, X_train_df, X_test_df, run, first, split_rows,
                   y_pred_prob, cm, mis, attempt, code, prev_code, prev_error>>

\* the loop is over without success: the last code and the original table
\* are saved, and RuntimeError raised
Exhausted ==
    /\ fn = "controller_loop" /\ ret = NotYet /\ attempt = MAX_ATTEMPTS + 1
    /\ files' = WriteFile(WriteFile(files,
                    "./attempts/last_failed_code.py",
                    IF code.v = "" THEN "# empty" ELSE code.v),
                    FallbackPaths[arg.output_csv], "df_orig")
    /\ ret' = Exc("RuntimeError")
    /\ UNCHANGED <<fn, arg, pc, has_lgb, age_group, medical_text, cluster_id,
                   cluster_samples, pending, llm, calls, cluster_summaries, outcome,
                   label_map, risk_label, df_train, df_test, written, error, tfidf_vocab,
                   ohe_categories, feature_names_cat, feature_names, test_feature_names,
                   stdout, report, X_train_df, X_test_df, run, first, split_rows,
                   y_pred_prob, cm, mis, attempt, code, prev_code, prev_error>>

NextController ==
    \/ InputMissing
    \/ GenerateInitial
    \/ EmptyCode
    \/ Placeholder
    \/ RuntimeError
    \/ ExecuteExits
    \/ BelowThreshold
    \/ Succeed
    \/ Exhausted

\* the loop as the interpreter executes it: a single thread that takes its
\* next step whenever it has one
SpecController == InitController /\ [][NextController]_vars /\ WF_vars(NextController)

(***************************************************************************)
(* Properties.                                                             *)
(***************************************************************************)
Sentinels == {Str("[NO LLM RESPONSE]"), Str("[ERROR]")}
HasKeyword(text, kws) == ContainsAny(Lower(text), kws)
Called == ret # NotYet

\* C1: in every run, for every Train/Test split, the column names of Test's
\* feature matrix are the column names of Train's, element for element and in
\* the same order.
C1_TestColumnsAreTrainColumns ==
    pc \in {"transformed", "predicted", "done"} => test_feature_names = feature_names

\* C1 witness: Test has been transformed, and a refit on Test would have given
\* another vocabulary size and other categories
C1_Witness ==
    /\ pc = "transformed"
    /\ Cardinality(TfidfFit(df_test)) # Cardinality(tfidf_vocab)
    /\ OheFit(df_test) # ohe_categories
    /\ Len(test_feature_names) > Len(numeric_cols) + 1

\* C2: once labels are assigned, every incident carries the label extract_label
\* gives for the recorded summary of its cluster, so incidents of one cluster
\* agree; this holds in every later state, so no step relabels an incident.
C2_LabelIsClusterLevel ==
    risk_label # EmptyMap =>
        \A i \in Incidents :
            /\ cluster_id[i] \in DOMAIN cluster_summaries
            /\ risk_label[i] = extract_label(cluster_summaries[cluster_id[i]].summary)
            /\ \A j \in Incidents :
                  cluster_id[i] = cluster_id[j] => risk_label[i] = risk_label[j]

\* C2 witness: two incidents of one cluster labeled HIGH beside an incident
\* labeled LOW
C2_Witness ==
    /\ pc = "labeled"
    /\ \E i, j, k \in Incidents :
          /\ i # j /\ cluster_id[i] = cluster_id[j]
          /\ risk_label[i] = "HIGH" /\ risk_label[k] = "LOW"

\* C3: a summary that contains "cardiac arrest" in any letter case is labeled
\* HIGH, whatever else it contains.
C3_CardiacArrestIsHigh ==
    (Called /\ arg.t = "str" /\ Contains(Lower(arg.v), "cardiac arrest"))
        => ret = Str("HIGH")

\* C3 witness: "Cardiac Arrest", capitalised, beside a LOW keyword
C3_Witness ==
    /\ Called /\ arg.t = "str"
    /\ Contains(arg.v, "Cardiac Arrest") /\ HasKeyword(arg.v, low_kw)
    /\ ret = Str("HIGH")

\* the reference function of C4
RefLabel(text) ==
    IF \E j \in 1..Len(high_kw) : Contains(Lower(text), high_kw[j]) THEN "HIGH"
    ELSE IF \E j \in 1..Len(low_kw) : Contains(Lower(text), low_kw[j]) THEN "LOW"
    ELSE "MEDIUM"

\* C4: extract_label equals the reference function HIGH-then-LOW-else-MEDIUM
\* over the lowercased text, and the text in upper or in lower case gets the
\* same label.
C4_OrderedCaseInsensitive ==
    Called =>
        /\ ret = Str(RefLabel(OrEmpty(arg)))
        /\ extract_label(Str(Upper(OrEmpty(arg)))) = ret.v
        /\ extract_label(Str(Lower(OrEmpty(arg)))) = ret.v

\* C4 witness: a LOW keyword in capitals and a MEDIUM keyword, no HIGH keyword
C4_Witness ==
    /\ Called /\ arg.t = "str"
    /\ Contains(arg.v, "LOW RISK") /\ HasKeyword(arg.v, med_kw)
    /\ ~HasKeyword(arg.v, high_kw)
    /\ ret = Str("LOW")

\* C5: a summary (None, empty or prose) with no HIGH and no LOW keyword is
\* labeled MEDIUM; LOW and HIGH are returned only for a text with a keyword of
\* that class; the call always returns a label.
C5_DefaultsToMedium ==
    Called =>
        /\ ret \in {Str(l) : l \in Labels}
        /\ ret = Str("LOW") => HasKeyword(OrEmpty(arg), low_kw)
        /\ ret = Str("HIGH") => HasKeyword(OrEmpty(arg), high_kw)
        /\ (~HasKeyword(OrEmpty(arg), high_kw) /\ ~HasKeyword(OrEmpty(arg), low_kw))
              => ret = Str("MEDIUM")

\* C5 witness: None is labeled MEDIUM
C5_Witness == Called /\ arg = None /\ ret = Str("MEDIUM")

SentinelClusters == {cid \in DOMAIN cluster_summaries : cluster_summaries[cid].summary \in Sentinels}
Ended == pc \in {"returned", "done", "failed"}

\* C6 as claimed: when a cluster's summary is a failure sentinel, the cluster
\* and its incidents are labeled MEDIUM and the run writes Train and Test and
\* completes: it never ends in an exception.
C6_SentinelRunCompletes ==
    SentinelClusters # {} =>
        /\ \A cid \in SentinelClusters :
              /\ cid \in DOMAIN label_map => label_map[cid] = "MEDIUM"
              /\ risk_label # EmptyMap =>
                    \A i \in Members(cid) : risk_label[i] = "MEDIUM"
        /\ pc # "failed"
        /\ Ended => {"train_set.csv", "test_set.csv"} \subseteq written

\* the run has a next step.  Label, FitEncoders and TransformTest are enabled
\* exactly when their first conjuncts hold; the other actions are asked of
\* ENABLED
CanStep ==
    \/ pc = "summaries_written"
    \/ pc = "split" /\ has_lgb
    \/ pc = "trained"
    \/ ENABLED (BuildMedicalText \/ ClusterMedicalText \/ SampleClusters \/ BeginSummarize
                \/ PostFailRetry \/ PostFailLast \/ PostOk \/ SleepBetweenCalls
                \/ ExceptSummarize \/ WriteSummaries
                \/ ClusterDiagnostics \/ Split \/ SplitFails \/ SkipTraining \/ Train
                \/ Predict \/ Evaluate)

\* C6 amended: when a cluster's summary is a failure sentinel, the cluster and
\* its incidents are labeled MEDIUM and the run goes on (it always has a next
\* step) until it ends: completed, with Train and Test written, or stopped at
\* the split by train_test_split raising because the labels cannot be
\* stratified.
C6_SentinelIsMediumAndRunGoesOn ==
    SentinelClusters # {} =>
        /\ \A cid \in SentinelClusters :
              /\ cid \in DOMAIN label_map => label_map[cid] = "MEDIUM"
              /\ risk_label # EmptyMap =>
                    \A i \in Members(cid) : risk_label[i] = "MEDIUM"
        /\ pc = "failed" => (StratifyFails(risk_label) /\ error = "ValueError")
        /\ pc \in {"returned", "done"} => {"train_set.csv", "test_set.csv"} \subseteq written
        /\ ~Ended => CanStep

\* C6 witness: a run that completed with one cluster's summary a sentinel and
\* another cluster labeled HIGH
C6_Witness ==
    /\ pc = "done"
    /\ \E c1, c2 \in DOMAIN cluster_summaries :
          /\ cluster_summaries[c1].summary = Str("[NO LLM RESPONSE]")
          /\ label_map[c1] = "MEDIUM" /\ label_map[c2] = "HIGH"

\* C7: whatever calls fail, each cluster of the data is requested at most once
\* while the loop runs, and once the loop has ended each has been requested
\* exactly once and has its entry in cluster_summaries.
C7_EveryClusterSummarizedOnce ==
    /\ pc = "summarizing" =>
          /\ \A cid \in ClusterIds : calls[cid] <= 1
          /\ \A cid \in DOMAIN cluster_summaries : cid \in ClusterIds /\ calls[cid] = 1
    /\ pc \notin {"off", "start", "built", "clustered", "summarizing"} =>
          /\ DOMAIN cluster_summaries = ClusterIds
          /\ \A cid \in ClusterIds : calls[cid] = 1

\* C7 witness: the loop has ended; an earlier cluster's call failed and a later
\* cluster has the text the collaborator returned
C7_Witness ==
    /\ pc = "summarized"
    /\ \E c1, c2 \in ClusterIds :
          /\ c1 < c2
          /\ outcome[c1] \in {"exhausted", "raised"}
          /\ outcome[c2] = "returned"
          /\ cluster_summaries[c2].summary \notin Sentinels

\* C8: when every attempt for a cluster failed, the recorded summary is the
\* sentinel "[NO LLM RESPONSE]" (an entry, and not the empty string), and no
\* exception has left run_pipeline by the end of the loop.
C8_ExhaustedRetriesGiveSentinel ==
    /\ \A cid \in DOMAIN outcome :
          outcome[cid] = "exhausted" =>
              /\ cid \in DOMAIN cluster_summaries
              /\ cluster_summaries[cid].summary = Str("[NO LLM RESPONSE]")
    /\ pc \in {"summarizing", "summarized"} => error = ""

\* C8 witness: the loop has ended and the retries ran out for some cluster
C8_Witness ==
    /\ pc = "summarized"
    /\ \E cid \in DOMAIN outcome : outcome[cid] = "exhausted"

Buckets == {"infant", "child", "teen", "adult", "elderly", "unknown"}

\* C9: preprocess_age returns one of the six buckets, and for a number a:
\* a <= 1 infant, 1 < a <= 12 child, 12 < a <= 18 teen, 18 < a <= 65 adult,
\* a > 65 elderly.
C9_AgeBuckets ==
    Called =>
        /\ ret.v \in Buckets
        /\ arg.t = "num" =>
              ret.v = (IF arg.v <= 100 THEN "infant"
                       ELSE IF arg.v <= 1200 THEN "child"
                       ELSE IF arg.v <= 1800 THEN "teen"
                       ELSE IF arg.v <= 6500 THEN "adult"
                       ELSE "elderly")

\* C9 witness: age 1.01 is a child
C9_Witness == Called /\ arg = Num(101) /\ ret = Str("child")

\* C10 as claimed: an incident whose age cell is missing (NaN) or not a number
\* has the age bucket "unknown".
C10_MissingAgeIsUnknown ==
    age_group # EmptyMap =>
        \A i \in Incidents :
            (df[i].Patient_Age = NaN \/ FloatOf(df[i].Patient_Age) = Raised)
                => age_group[i] = "unknown"

\* C11 as claimed: preprocess_age maps the implausible numeric age 200, like the
\* non-numeric "abc", to "unknown" and not to an age bucket.
C11_ImplausibleAgeIsUnknown ==
    (Called /\ arg \in {Num(20000), Str("200"), Str("abc")}) => ret = Str("unknown")

\* the keywords the specification names for HIGH and for LOW
NamedHigh == <<"cardiac arrest", "life-threatening", "severe", "airway compromise",
               "unconscious", "seizure", "death">>
NamedLow == <<"minor", "no injury", "lift-assist", "non-traumatic">>

\* C19 as claimed: a summary containing a named HIGH keyword is labeled HIGH,
\* and a summary containing a named LOW keyword and no HIGH keyword (named, or
\* of the code's list) is labeled LOW.
C19_NamedKeywordsRecognized ==
    (Called /\ arg.t = "str") =>
        /\ HasKeyword(arg.v, NamedHigh) => ret = Str("HIGH")
        /\ (HasKeyword(arg.v, NamedLow) /\ ~HasKeyword(arg.v, NamedHigh)
              /\ ~HasKeyword(arg.v, high_kw)) => ret = Str("LOW")

TestCount(c) == Cardinality({i \in df_test : risk_label[i] = c})
Partitioned ==
    /\ df_train \cup df_test = DOMAIN risk_label
    /\ df_train \cap df_test = {}

\* C12 as claimed: after the split every incident is in exactly one of Train
\* and Test, and for each label the number of Test rows is within one row of
\* 0.3 times the label's count in the full set.
C12_SplitWithinOneRowOfThreeTenths ==
    pc = "split" =>
        /\ Partitioned
        /\ \A c \in Labels :
              /\ 10 * TestCount(c) - 3 * CountOf(risk_label, c) <= 10
              /\ 3 * CountOf(risk_label, c) - 10 * TestCount(c) <= 10

\* C12 amended: after the split every incident is in exactly one of Train and
\* Test, Test has ceil(0.3 n) of the n rows, and for each label the number of
\* Test rows is less than one row away from the label's count times
\* ceil(0.3 n) / n, hence less than two rows away from 0.3 times the count.
C12_SplitPartitionsAndStratifies ==
    pc = "split" =>
        LET n == Cardinality(DOMAIN risk_label)
        IN  /\ Partitioned
            /\ 10 * Cardinality(df_test) >= 3 * n
            /\ 10 * Cardinality(df_test) < 3 * n + 10
            /\ \A c \in Labels :
                  /\ n * TestCount(c) - Cardinality(df_test) * CountOf(risk_label, c) < n
                  /\ Cardinality(df_test) * CountOf(risk_label, c) - n * TestCount(c) < n
                  /\ 10 * TestCount(c) - 3 * CountOf(risk_label, c) < 20
                  /\ 3 * CountOf(risk_label, c) - 10 * TestCount(c) < 20

\* C12 witness: a split of several labels in which a label's Test rows are more
\* than one row away from 0.3 times its count
C12_Witness ==
    /\ pc = "split"
    /\ Cardinality(ClassesOf(risk_label)) >= 2
    /\ \E c \in Labels : 10 * TestCount(c) - 3 * CountOf(risk_label, c) > 10

SingletonLabel == risk_label # EmptyMap /\ \E c \in Labels : CountOf(risk_label, c) = 1
SplitAndLaterArtifacts ==
    {"train_set.csv", "test_set.csv", "tfidf_classifier.joblib", "classifier_model.joblib",
     "classifier_report.txt", "confusion_matrix.csv", "misclassified_samples.csv"}

\* C13: when some label is held by exactly one incident, the run gets no
\* further than the split step, where the only step it can take is to stop with
\* the ValueError of train_test_split; no split is made (stratified or not) and
\* no Train set, Test set, encoder, model or evaluation artifact is written.
C13_SingletonLabelStopsAtSplit ==
    SingletonLabel =>
        /\ pc \in {"labeled", "diagnosed", "failed"}
        /\ pc = "diagnosed" => (ENABLED SplitFails /\ ~ENABLED Split)
        /\ pc = "failed" => error = "ValueError"
        /\ df_train = {} /\ df_test = {}
        /\ written \cap SplitAndLaterArtifacts = {}

\* C13 witness: the run has stopped at the split with a label held by one
\* incident, after the summaries and the diagnostics were written
C13_Witness ==
    /\ SingletonLabel /\ pc = "failed" /\ error = "ValueError"
    /\ {"cluster_summaries.json", "cluster_diagnostics.json"} \subseteq written

SkipLine == Line("LightGBM not available; skipping classifier training.", <<>>)
TrainingArtifacts ==
    {"tfidf_classifier.joblib", "classifier_model.joblib", "classifier_report.txt",
     "confusion_matrix.csv", "misclassified_samples.csv"}

\* C14: when _HAS_LGB is false, the run never enters training or evaluation
\* and writes no encoder, model, report, confusion matrix or misclassified
\* dump; at the end of the split step its one step is to print the skip line
\* and return, and when it has returned the clustering model, the summaries,
\* the diagnostics and the Train and Test sets have been written, every
\* incident has its cluster and label and is in Train or Test, and no
\* exception was raised.  The skip line is printed at no other point.
C14_NoLightGbmSkipsTraining ==
    (~has_lgb /\ pc # "off") =>
        /\ pc \notin {"fitted", "trained", "transformed", "predicted", "done"}
        /\ written \cap TrainingArtifacts = {}
        /\ report = <<>>
        /\ pc = "split" => ENABLED SkipTraining
        /\ SkipLine \in stdout <=> pc = "returned"
        /\ pc = "returned" =>
              /\ {"kmeans_model.joblib", "cluster_summaries.json", "cluster_diagnostics.json",
                  "train_set.csv", "test_set.csv"} \subseteq written
              /\ DOMAIN cluster_id = Incidents /\ DOMAIN risk_label = Incidents
              /\ DOMAIN label_map = ClusterIds
              /\ df_train \cup df_test = Incidents /\ df_train # {} /\ df_test # {}
              /\ error = ""

\* C14 witness: a run without the library has returned after the split
C14_Witness ==
    /\ ~has_lgb /\ pc = "returned" /\ SkipLine \in stdout
    /\ "test_set.csv" \in written

Range(f) == {f[x] : x \in DOMAIN f}
ReportedLines == stdout \cup Range(report)

\* the lines that carry a row count, a cluster count or a cluster id
RowAndClusterLines ==
    {"Loaded {len(df):,} rows from {path}",
     "Clustered {len(df):,} rows into {N_CLUSTERS} clusters",
     "LLM summarization failed for cluster {cid}: {e}",
     "Train set: {len(df_train):,} rows", "Test set: {len(df_test):,} rows",
     "Train: {len(df_train):,} rows (70%)", "Test: {len(df_test):,} rows (30%)",
     "Model trained on {len(df_train):,} samples",
     "Saved {len(mis):,} misclassified samples to {mis_path}"}

\* C20 as claimed: when a run has completed, what it reported (the console
\* lines and classifier_report.txt) holds the label distribution, the sizes of
\* Train and Test, the classification report, and a line carrying the number of
\* clusters whose summary is a failure sentinel.
C20_ReportEnumeratesDegradedClusters ==
    pc = "done" =>
        /\ Line("Overall label distribution:", ValueCounts(risk_label, Incidents))
              \in ReportedLines
        /\ Line("Train: {len(df_train):,} rows (70%)", <<Cardinality(df_train)>>)
              \in ReportedLines
        /\ Line("Test: {len(df_test):,} rows (30%)", <<Cardinality(df_test)>>)
              \in ReportedLines
        /\ Line("=== Classification Report ===", <<>>) \in ReportedLines
        /\ \E l \in ReportedLines :
              /\ l.text \notin RowAndClusterLines
              /\ l.value = <<Cardinality(SentinelClusters)>>

\* where the one-hot cells of categorical column c lie in a matrix row: after
\* the numeric columns, the TF-IDF columns and the families before c
RECURSIVE FamilyStart(_)
FamilyStart(c) ==
    IF c = 1 THEN Len(numeric_cols) + 1 + Cardinality(tfidf_vocab)
    ELSE FamilyStart(c - 1) + Len(ohe_categories[c - 1])
Family(row, c) == [j \in 1..Len(ohe_categories[c]) |-> row[FamilyStart(c) + j]]
TrainValues(c) == {CatValue(i, cat_cols[c]) : i \in df_train}
\* the family has 1.0 at the row's own category and 0.0 elsewhere
EncodedNormally(row, i, c) ==
    /\ \E j \in 1..Len(ohe_categories[c]) : ohe_categories[c][j] = CatValue(i, cat_cols[c])
    /\ \A j \in 1..Len(ohe_categories[c]) :
          Family(row, c)[j] =
              Num(IF ohe_categories[c][j] = CatValue(i, cat_cols[c]) THEN 100 ELSE 0)
AllZero(row, c) == \A j \in 1..Len(ohe_categories[c]) : Family(row, c)[j] = Num(0)

\* C15: once Test is transformed (which happens without an exception), a Test
\* row whose value in a categorical column was not seen in Train has 0 in every
\* one-hot cell of that column's family, and a row whose value was seen has 1
\* at that value's cell and 0 in the rest of the family.
C15_UnseenCategoryIsAllZero ==
    pc \in {"transformed", "predicted", "done"} =>
        /\ error = ""
        /\ DOMAIN X_test_df = df_test
        /\ \A i \in df_test :
              /\ Len(X_test_df[i]) = Len(test_feature_names)
              /\ \A c \in 1..Len(cat_cols) :
                    IF CatValue(i, cat_cols[c]) \in TrainValues(c)
                    THEN EncodedNormally(X_test_df[i], i, c)
                    ELSE AllZero(X_test_df[i], c)

\* C15 witness: a Test row with an unseen value in one categorical column and a
\* seen value in another
C15_Witness ==
    /\ pc = "transformed"
    /\ \E i \in df_test : \E c, d \in 1..Len(cat_cols) :
          /\ CatValue(i, cat_cols[c]) \notin TrainValues(c)
          /\ AllZero(X_test_df[i], c)
          /\ CatValue(i, cat_cols[d]) \in TrainValues(d)
          /\ EncodedNormally(X_test_df[i], i, d)

\* C16: from the fit on, through training, the transformation of Test and the
\* evaluation, the TF-IDF vocabulary is the set of terms of the Train rows'
\* texts and the category levels are the sorted values of the Train rows: they
\* are the same after transforming Test as after fitting, and no Test row
\* contributes to them.
C16_EncodersFittedOnTrainOnly ==
    pc \in {"fitted", "trained", "transformed", "predicted", "done"} =>
        /\ df_train \cap df_test = {}
        /\ tfidf_vocab = UNION {Terms(medical_text[i]) : i \in df_train}
        /\ Len(ohe_categories) = Len(cat_cols)
        /\ \A c \in 1..Len(cat_cols) :
              /\ {ohe_categories[c][j] : j \in 1..Len(ohe_categories[c])} = TrainValues(c)
              /\ Len(ohe_categories[c]) = Cardinality(TrainValues(c))

\* C16 witness: Test has been transformed, and a Test row has a term and a
\* category value that the fitted encoders do not hold
C16_Witness ==
    /\ pc = "transformed"
    /\ \E i \in df_test :
          /\ Terms(medical_text[i]) \ tfidf_vocab # {}
          /\ \E c \in 1..Len(cat_cols) : CatValue(i, cat_cols[c]) \notin TrainValues(c)

\* the source cell is missing or is not a number
NotNumeric(cell) == cell.t = "nan" \/ (cell.t = "str" /\ FloatOf(cell) \in {Raised, NaN})

\* every incident of rows has one matrix row, as long as the column names, with
\* no missing cell; a missing or non-numeric timing or age is -1 and any other
\* is the number itself; a missing categorical value is encoded as the
\* category "unknown"
Imputed(X, rows, names) ==
    /\ DOMAIN X = rows
    /\ \A i \in rows :
          /\ Len(X[i]) = Len(names)
          /\ \A k \in 1..Len(X[i]) : X[i][k].t \in {"num", "weight"}
          /\ \A k \in 1..(Len(numeric_cols) + 1) :
                LET col == (numeric_cols \o <<"Patient_Age">>)[k]
                IN  /\ X[i][k].t = "num"
                    /\ NotNumeric(NumericSource(i, col)) <=> X[i][k] = Num(-100)
                    /\ NumericSource(i, col).t = "num" => X[i][k] = NumericSource(i, col)
          /\ \A c \in 1..Len(cat_cols) :
                CatCell(i, cat_cols[c]) = NaN =>
                    IF "unknown" \in TrainValues(c)
                    THEN \A j \in 1..Len(ohe_categories[c]) :
                            Family(X[i], c)[j] =
                                Num(IF ohe_categories[c][j] = "unknown" THEN 100 ELSE 0)
                    ELSE AllZero(X[i], c)

C18_SecondRunReproducesFirst ==
    run = 2 =>
        /\ cluster_id # EmptyMap => cluster_id = first.cluster_id
        /\ pc \notin {"start", "built", "clustered"} => cluster_samples = first.cluster_samples
        /\ label_map # EmptyMap => label_map = first.label_map
        /\ pc = "labeled" =>
              \A cid \in DOMAIN label_map :
                  label_map[cid] = extract_label(cluster_summaries[cid].summary)
        /\ pc = "built" => ENABLED ClusterMedicalText
        /\ pc = "clustered" => ENABLED SampleClusters
        /\ (pc = "summarizing" /\ llm.phase = "post" /\ llm.attempt = max_retries) =>
              ENABLED (PostFailLast \/ PostOk)
        /\ pc = "diagnosed" =>
              IF first.pc = "split" THEN ENABLED Split ELSE ENABLED SplitFails
        /\ pc = "split" =>
              (first.pc = "split" /\ df_train = first.df_train /\ df_test = first.df_test)
        /\ pc = "failed" => first.pc = "failed"

\* C18 witness: a second run has split as the first did, after drawing a
\* sample smaller than its cluster
C18_Witness ==
    /\ run = 2 /\ pc = "split"
    /\ \E cid \in ClusterIds : Len(cluster_samples[cid]) < Cardinality(Members(cid))
    /\ df_train = first.df_train /\ df_test = first.df_test

\* the requests the call in progress has sent: in phase "post" the request of
\* the current attempt is out
RequestsSent == IF llm.phase = "post" THEN llm.attempt ELSE Len(llm.tries)
Failed(n) == [k \in 1..n |-> "failed"]
\* _post_with_retry has returned to ask
PostReturned == llm.phase \in {"sleep", "except"}

RequestsBounded ==
    llm.phase # "idle" =>
        /\ RequestsSent \in 1..max_retries
        /\ llm.phase = "post" => llm.tries = Failed(llm.attempt - 1)
        /\ PostReturned =>
              \/ /\ llm.tries = Append(Failed(RequestsSent - 1), "ok")
                 /\ llm.how \in {"returned", "raised"}
              \/ /\ llm.tries = Failed(max_retries)
                 /\ llm.how = "exhausted" /\ llm.text = Str("")

\* C21: _post_with_retry sends at least one and at most max_retries requests;
\* it returns at the first attempt that succeeds (every attempt before it
\* failed, and no request follows it), and returns None, which ask turns into
\* "", when max_retries attempts have failed and not before; and a call that
\* has started returns.
C21_PostWithRetryTerminates ==
    /\ []RequestsBounded
    /\ (llm.phase = "post") ~> PostReturned

\* C21 witness: a call ended after max_retries failed attempts, after an earlier
\* call returned a response
C21_Witness ==
    /\ llm.phase = "sleep" /\ llm.how = "exhausted"
    /\ RequestsSent = max_retries /\ max_retries >= 1
    /\ \E cid \in DOMAIN outcome : outcome[cid] = "returned"

\* C22 as claimed: the calls are sequential (while a call is in progress, the
\* clusters summarized so far are exactly those before its cluster, and the
\* clusters after it are still to come), and whenever the loop stands between
\* two clusters, however the call for the first ended, that call ran its sleep
\* of sleep_between_calls before the request for the second goes out.
C22_SleepBetweenConsecutiveCalls ==
    pc = "summarizing" =>
        /\ llm.phase # "idle" =>
              /\ DOMAIN cluster_summaries = {cid \in ClusterIds : cid < llm.cid}
              /\ pending # <<>> /\ Head(pending) = llm.cid
        /\ (llm.phase = "idle" /\ cluster_summaries # EmptyMap) => llm.paused

\* the sleeps of a call whose first n attempts failed: 1, 2, 4, ... seconds
Backoff(n) == [k \in 1..n |-> 2 ^ (k - 1)]

\* C28: while attempt k+1 is in flight _post_with_retry has slept k times, for
\* 1, 2, ..., 2^(k-1) seconds; when it has returned after n failed attempts and
\* a success it has slept those n times and no more, and when it has returned
\* None after max_retries failed attempts it has slept max_retries - 1 times:
\* there is no sleep after the last attempt, failed or not.
C28_BackoffDoublesBetweenAttempts ==
    llm.phase # "idle" =>
        /\ llm.phase = "post" =>
              (llm.slept = Backoff(llm.attempt - 1) /\ llm.delay = 2 ^ (llm.attempt - 1))
        /\ PostReturned =>
              /\ llm.slept = Backoff(Len(llm.tries) - 1)
              /\ llm.how # "exhausted" =>
                    Len(llm.slept) = Cardinality({k \in 1..Len(llm.tries) : llm.tries[k] = "failed"})
              /\ llm.how = "exhausted" => Len(llm.slept) = max_retries - 1

\* C28 witness: a call returned a response at its fourth attempt, after sleeps
\* of 1, 2 and 4 seconds
C28_Witness ==
    /\ llm.phase = "sleep" /\ llm.how = "returned"
    /\ llm.tries = <<"failed", "failed", "failed", "ok">>
    /\ llm.slept = <<1, 2, 4>>

\* the positions of run_pipeline in the order of its stages; the three ways
\* the run ends come last
StageOrder == <<"start", "built", "clustered", "summarizing", "summarized",
                "summaries_written", "labeled", "diagnosed", "split", "fitted", "trained",
                "transformed", "predicted", "done", "returned", "failed">>
Stage(p) == CHOOSE k \in 1..Len(StageOrder) : StageOrder[k] = p
Passed(p) == Stage(pc) >= Stage(p)
EvaluationArtifacts ==
    {"classifier_report.txt", "confusion_matrix.csv", "misclassified_samples.csv"}

\* what each stage has when it starts
StagesInOrder ==
    /\ (llm.phase # "idle" \/ cluster_summaries # EmptyMap) => DOMAIN cluster_id = Incidents
    /\ (label_map # EmptyMap \/ risk_label # EmptyMap) =>
          (DOMAIN cluster_summaries = ClusterIds /\ llm.phase = "idle" /\ pending = <<>>)
    /\ (df_train # {} \/ df_test # {} \/ split_rows # EmptyMap
          \/ written \cap {"train_set.csv", "test_set.csv"} # {}) =>
          DOMAIN risk_label = Incidents
    /\ (tfidf_vocab # {} \/ ohe_categories # <<>> \/ X_train_df # EmptyMap
          \/ "tfidf_classifier.joblib" \in written) =>
          /\ df_train # {} /\ df_train \cup df_test = Incidents
          /\ {"train_set.csv", "test_set.csv"} \subseteq written
    /\ "classifier_model.joblib" \in written => DOMAIN X_train_df = df_train
    /\ y_pred_prob # EmptyMap =>
          ("classifier_model.joblib" \in written /\ DOMAIN X_test_df = df_test)
    /\ (written \cap EvaluationArtifacts # {} \/ cm # <<>> \/ mis # EmptyMap
          \/ report # <<>>) =>
          (df_test # {} /\ DOMAIN y_pred_prob = df_test)

\* a step moves to a later stage or stays in its stage, and leaves what the
\* stages already passed have produced as it is
NoFeedback ==
    /\ Stage(pc') >= Stage(pc)
    /\ Passed("built") => medical_text' = medical_text
    /\ Passed("clustered") => cluster_id' = cluster_id
    /\ Passed("summarizing") => cluster_samples' = cluster_samples
    /\ Passed("summarized") => cluster_summaries' = cluster_summaries
    /\ Passed("labeled") => (label_map' = label_map /\ risk_label' = risk_label)
    /\ Passed("split") => (df_train' = df_train /\ df_test' = df_test)
    /\ Passed("fitted") =>
          (tfidf_vocab' = tfidf_vocab /\ ohe_categories' = ohe_categories
           /\ X_train_df' = X_train_df)
    /\ Passed("transformed") => X_test_df' = X_test_df
    /\ Passed("predicted") => y_pred_prob' = y_pred_prob

\* C23: the stages run in order and never feed back: a cluster is summarized
\* only when every incident has its cluster id, a label is assigned only when
\* every cluster is summarized, the split is made only when every incident is
\* labeled, the encoders are fitted only after the split, the Test rows are
\* predicted only after the model is trained, and the evaluation artifacts are
\* written only after every Test row is predicted; no step returns to an
\* earlier stage or changes what an earlier stage produced.
C23_StagesRunDownstream == []StagesInOrder /\ [][NoFeedback]_vars

\* C23 witness: a run has gone through every stage
C23_Witness ==
    /\ pc = "done" /\ EvaluationArtifacts \subseteq written
    /\ DOMAIN y_pred_prob = df_test /\ df_test # {}
    /\ DOMAIN cluster_summaries = ClusterIds /\ Cardinality(ClusterIds) >= 2

\* the run has split the table
AfterSplit ==
    pc \in {"split", "fitted", "trained", "transformed", "predicted", "done", "returned"}

\* the rows of Train and Test, and those of the misclassified dump, have the
\* cluster id and the label of their incident in the full table
CarriedBySplits ==
    /\ AfterSplit =>
          /\ DOMAIN split_rows = df_train \cup df_test
          /\ \A i \in DOMAIN split_rows :
                split_rows[i] = [cluster_id |-> cluster_id[i], risk_label |-> risk_label[i]]
    /\ \A i \in DOMAIN mis :
          /\ i \in df_test
          /\ mis[i].cluster_id = cluster_id[i] /\ mis[i].risk_label = risk_label[i]

\* C24: cluster_id changes only in the clustering step, from unassigned to a
\* cluster for every incident, and risk_label only in the labeling step, from
\* unassigned to a label for every incident; after every step from the split on
\* (encoding, training, prediction, evaluation, the misclassified dump) the rows
\* of Train and Test carry the cluster id and label of the full table.
C24_ClusterAndLabelAssignedOnce ==
    [][/\ cluster_id' # cluster_id =>
             (pc = "built" /\ cluster_id = EmptyMap /\ DOMAIN cluster_id' = Incidents)
       /\ risk_label' # risk_label =>
             (pc = "summaries_written" /\ risk_label = EmptyMap
              /\ DOMAIN risk_label' = Incidents)
       /\ CarriedBySplits']_vars

\* C24 witness: the run is complete; Train and Test hold rows of two clusters
\* and of two labels, and a row is in the misclassified dump
C24_Witness ==
    /\ pc = "done" /\ mis # EmptyMap
    /\ \E i \in df_train, j \in df_test :
          /\ split_rows[i].cluster_id # split_rows[j].cluster_id
          /\ split_rows[i].risk_label # split_rows[j].risk_label

\* the class LOW=0, MEDIUM=1, HIGH=2 of a label, and the class with the
\* highest of three probabilities (the lowest such class when two are equal)
ClassOf(l) == CHOOSE k \in 0..2 : <<"LOW", "MEDIUM", "HIGH">>[k + 1] = l
Highest(p) ==
    IF p[1] >= p[2] /\ p[1] >= p[3] THEN 0 ELSE IF p[2] >= p[3] THEN 1 ELSE 2
WronglyPredicted ==
    {i \in df_test : Highest(y_pred_prob[i]) # ClassOf(risk_label[i])}
CellSum(m, cells) == SumOver([c \in cells |-> m[c[1]][c[2]]], cells)

\* C26: when the evaluation is written, the misclassified dump holds exactly
\* the Test rows whose predicted class (the class with the highest of the
\* row's three probabilities) is not the class of the row's label, each with
\* its true class, its predicted class and its three probabilities; the
\* confusion matrix is 3x3, its cell (t, p) counts the Test rows of true class
\* t predicted as p, its cells sum to the number of Test rows and the cells
\* off the diagonal to the number of rows in the dump.
C26_MisclassifiedDumpMatchesConfusion ==
    pc = "done" =>
        /\ DOMAIN mis = WronglyPredicted
        /\ \A i \in DOMAIN mis :
              /\ mis[i]._true_label = ClassOf(risk_label[i])
              /\ mis[i]._pred_label = Highest(y_pred_prob[i])
              /\ <<mis[i]._pred_prob_LOW, mis[i]._pred_prob_MEDIUM, mis[i]._pred_prob_HIGH>>
                    = y_pred_prob[i]
        /\ Len(cm) = 3 /\ \A t \in 1..3 : Len(cm[t]) = 3
        /\ \A t, p \in 1..3 :
              cm[t][p] = Cardinality({i \in df_test : ClassOf(risk_label[i]) = t - 1
                                                      /\ Highest(y_pred_prob[i]) = p - 1})
        /\ CellSum(cm, (1..3) \X (1..3)) = Cardinality(df_test)
        /\ CellSum(cm, {c \in (1..3) \X (1..3) : c[1] # c[2]}) = Cardinality(DOMAIN mis)
        /\ Line("Saved {len(mis):,} misclassified samples to {mis_path}",
                <<Cardinality(WronglyPredicted)>>) \in stdout

\* C26 witness: of two Test rows one is predicted right and one wrong, the
\* wrong one with equal probabilities for MEDIUM and HIGH
C26_Witness ==
    /\ pc = "done"
    /\ \E i, j \in df_test :
          /\ i \notin DOMAIN mis /\ j \in DOMAIN mis
          /\ y_pred_prob[j][2] = y_pred_prob[j][3] /\ mis[j]._pred_label = 1
          /\ mis[j]._true_label = 2

\* C25: once the clusters are sampled, and from then on, cluster_samples has
\* one entry for each cluster that has an incident, under that cluster's id,
\* and no other; the entry lists min(cluster size, SAMPLES_PER_CLUSTER)
\* incidents, each a member of the cluster and none listed twice.
C25_OneBoundedSamplePerCluster ==
    Passed("summarizing") =>
        /\ DOMAIN cluster_samples = {cluster_id[i] : i \in Incidents}
        /\ \A cid \in DOMAIN cluster_samples :
              LET sample == cluster_samples[cid]
                  size == Cardinality({i \in Incidents : cluster_id[i] = cid})
              IN  /\ size >= 1
                  /\ Len(sample) = (IF size <= SAMPLES_PER_CLUSTER THEN size
                                    ELSE SAMPLES_PER_CLUSTER)
                  /\ \A k \in 1..Len(sample) : cluster_id[sample[k]] = cid
                  /\ \A k, l \in 1..Len(sample) : k # l => sample[k] # sample[l]

\* C25 witness: a cluster larger than SAMPLES_PER_CLUSTER is sampled in part,
\* and KMeans left another cluster id without incidents and so without entry
C25_Witness ==
    /\ pc = "summarizing"
    /\ \E c \in DOMAIN cluster_samples :
          /\ Cardinality(Members(c)) > SAMPLES_PER_CLUSTER
          /\ Len(cluster_samples[c]) = SAMPLES_PER_CLUSTER
    /\ \E d \in 0..(N_CLUSTERS - 1) : Members(d) = {} /\ d \notin DOMAIN cluster_samples

\* C27 as claimed: a summary that consists of one keyword of the MEDIUM list,
\* in any letter case, is labeled MEDIUM.
C27_MediumKeywordsEffective ==
    (Called /\ arg.t = "str" /\ \E j \in 1..Len(med_kw) : Lower(arg.v) = med_kw[j])
        => ret = Str("MEDIUM")

\* name extended with __dup and a number
IsDupOf(new, name) ==
    /\ Len(new) > Len(name) + 5
    /\ SubSeq(new, 1, Len(name) + 5) = name \o "__dup"
    /\ IsDigits(SubSeq(new, Len(name) + 6, Len(new)))

\* C30: the list make_unique returns is as long as its argument and holds no
\* name twice; at each position it holds the argument's name itself when no
\* earlier position of the result holds that name, and otherwise that name
\* extended with __dup and a number.
C30_MakeUniqueIsInjective ==
    Called =>
        /\ Len(ret.v) = Len(arg.v)
        /\ \A k, l \in 1..Len(ret.v) : k # l => ret.v[k] # ret.v[l]
        /\ \A k \in 1..Len(ret.v) :
              IF \A j \in 1..(k - 1) : ret.v[j] # arg.v[k]
              THEN ret.v[k] = arg.v[k]
              ELSE IsDupOf(ret.v[k], arg.v[k])

\* C30 witness: the second "a" meets an "a__dup1" that is already in the list
\* and becomes "a__dup2", and the second "a__dup1" gets a suffix of its own
C30_Witness ==
    /\ Called /\ arg = List(<<"a", "a__dup1", "a", "a__dup1">>)
    /\ ret = List(<<"a", "a__dup1", "a__dup2", "a__dup1__dup1">>)

\* the passes of controller_loop's loop made so far: each saves its attempt file first
Iterations == Cardinality({n \in 1..(MAX_ATTEMPTS + 1) : AttemptPaths[n] \in DOMAIN files})

WroteFile(path) == path \in DOMAIN files

\* controller_loop returned the cleaned table: output_csv was written once, with
\* the table that the code tried last left behind without an error and that
\* scores at least SCORE_THRESHOLD
ReturnedCleaned ==
    /\ ret.t = "frame"
    /\ WroteFile(arg.output_csv) /\ files[arg.output_csv] = [content |-> ret, writes |-> 1]
    /\ Tried[code.v].executed = [df |-> ret, err |-> None]
    /\ evaluator_basic(ret).score >= SCORE_THRESHOLD

\* controller_loop raised RuntimeError after MAX_ATTEMPTS passes: the original
\* table is in the _FAILED file and output_csv was never written
RaisedAfterMaxAttempts ==
    /\ ret = Exc("RuntimeError")
    /\ Iterations = MAX_ATTEMPTS
    /\ WroteFile(FallbackPaths[arg.output_csv]) /\ files[FallbackPaths[arg.output_csv]].content = "df_orig"
    /\ ~WroteFile(arg.output_csv)

\* C29 as claimed: controller_loop makes at most MAX_ATTEMPTS passes and ends,
\* and it ends in one of two ways: it returns the cleaned table, having written
\* output_csv once with the result of code that ran without error and scored
\* at least SCORE_THRESHOLD; or it raises RuntimeError after MAX_ATTEMPTS
\* passes, having written the original table to the _FAILED file and never
\* output_csv.
C29_ControllerLoopEndsInOneOfTwoOutcomes ==
    /\ [](Iterations <= MAX_ATTEMPTS)
    /\ <>Called
    /\ [](Called => (ReturnedCleaned \/ RaisedAfterMaxAttempts))
    /\ [](WroteFile(arg.output_csv) => ReturnedCleaned)

=============================================================================
